---- MODULE Spec2Model ----
(***************************************************************************)
(* CipherDash: cipher nodes, the cipher pipeline and the polygon geometry  *)
(* of src/nodes.js, the scoring of src/evaluator.js and the attacks of     *)
(* src/attack.js, the game of src/game.js with the polygon builder of     *)
(* polygon-builder.js, and the objective-only variant of the game, as      *)
(* state machines.                                                         *)
(*                                                                         *)
(* Conventions of the translation                                          *)
(*  - a string is a sequence of character codes (String.charCodeAt), over  *)
(*    the ASCII range; 'A' is 65, 'a' is 97;                               *)
(*  - a number the code leaves undefined (validKeys[-1]) is Undefined;     *)
(*  - JavaScript's % is the truncated remainder JsRem, whose sign is the   *)
(*    sign of the dividend;                                                *)
(*  - vertices have integer coordinates; polygonArea is carried in half    *)
(*    units (twice the area) and a side variance by its square, a          *)
(*    fraction num/den, so that every comparison the code makes on them is *)
(*    decided exactly;                                                     *)
(*  - the numbers of the scoring are carried in millionths (Micro), rounded*)
(*    down, and NaN is a value of its own that arithmetic hands on and     *)
(*    every comparison finds false;                                        *)
(*  - null is Null where the code compares it with numbers.                *)
(***************************************************************************)
EXTENDS Integers, Sequences, FiniteSets, TLC

VARIABLES
  text,     \* the string the driver holds (the plaintext)
  cipher,   \* the second string the driver holds (the ciphertext)
  verts,    \* the vertex list the driver holds
  nodes,    \* CipherPipeline.nodes: the sequence of node objects
  nextUid,  \* identity of the next node object pushed (insertion stamp)
  node,     \* the node object under operation (single-node lifecycle)
  op,       \* the operation that ran last
  arg,      \* its argument
  ret,      \* the value it returned
  game,     \* the CipherDashGame object's other fields (src/game.js)
  polygonBuilder  \* the PolygonBuilder object of the game

vars == <<text, cipher, verts, nodes, nextUid, node, op, arg, ret, game, polygonBuilder>>

(***************************************************************************)
(* Bounds of the model.                                                    *)
(***************************************************************************)
MaxLen == 2      \* longest input string
MaxNodes == 2    \* longest pipeline of the pipeline's own state machine
MaxVerts == 4    \* longest generated vertex list

(***************************************************************************)
(* JavaScript arithmetic.                                                  *)
(***************************************************************************)
Undefined == -1000000

Abs(a) == IF a < 0 THEN -a ELSE a

\* a % b of JavaScript for integers, b > 0: truncated, sign of the dividend
JsRem(a, b) == IF a >= 0 THEN a % b ELSE -((-a) % b)

RECURSIVE IsqrtIn(_, _, _)
IsqrtIn(n, lo, hi) ==
  IF lo >= hi THEN lo
  ELSE LET mid == (lo + hi + 1) \div 2
       IN IF mid * mid <= n THEN IsqrtIn(n, mid, hi) ELSE IsqrtIn(n, lo, mid - 1)

\* floor(Math.sqrt(n)) for an integer n in 0 .. 2^30
Isqrt(n) == IsqrtIn(n, 0, 32768)

RECURSIVE SumSeq(_)
SumSeq(s) == IF s = <<>> THEN 0 ELSE Head(s) + SumSeq(Tail(s))

\* Array.prototype.reverse
ReverseSeq(s) == [i \in 1..Len(s) |-> s[Len(s) + 1 - i]]

(***************************************************************************)
(* Characters.                                                             *)
(***************************************************************************)
IsUpper(c) == c >= 65 /\ c <= 90

\* String.prototype.toUpperCase, one ASCII character
UpperChar(c) == IF c >= 97 /\ c <= 122 THEN c - 32 ELSE c

toUpperCase(s) == [i \in 1..Len(s) |-> UpperChar(s[i])]

\* String.fromCharCode(n + 65) where n may be NaN (an undefined key): NaN gives code 0
FromCharCode(n) == IF n = Undefined THEN 0 ELSE n

(***************************************************************************)
(* Cipher nodes (src/nodes.js).                                            *)
(***************************************************************************)
validKeys == <<1, 3, 5, 7, 9, 11, 15, 17, 19, 21, 23, 25>>

\* validKeys.includes(k)
ValidKeysIncludes(k) == \E i \in 1..Len(validKeys) : validKeys[i] = k

\* validKeys[i] of JavaScript, 0-based; an index outside the array reads undefined
ValidKeyAt(i) == IF i >= 0 /\ i < Len(validKeys) THEN validKeys[i + 1] ELSE Undefined

\* CipherNode.constructor
CipherNode(type, name) == [type |-> type, name |-> name, key |-> 0]

\* CipherNode.setKey
CipherNodeSetKey(n, key) == [n EXCEPT !.key = key]

\* ShiftNode.constructor
ShiftNode(key) == [CipherNode("shift", "Shift") EXCEPT !.key = key]

\* one character of ShiftNode.apply's map callback
ShiftChar(char, key) ==
  IF ~IsUpper(char) THEN char
  ELSE LET code == char - 65
           shifted == JsRem(code + key, 26)
       IN FromCharCode(shifted + 65)

\* ShiftNode.apply(input, key)
ShiftApply(input, key) ==
  LET up == toUpperCase(input) IN [i \in 1..Len(up) |-> ShiftChar(up[i], key)]

\* ReverseNode.constructor
ReverseNode == [CipherNode("reverse", "Reverse") EXCEPT !.key = 0]

\* ReverseNode.apply folding the reversed string to upper case, as the
\* other nodes do
ReverseApplyUpper(input) == ReverseSeq(toUpperCase(input))

\* ReverseNode.apply
ReverseApply(input) == ReverseSeq(input)

\* MultiplyNode.validateKey, as the node it leaves
validateKey(n, key) ==
  IF ~ValidKeysIncludes(JsRem(key, 26))
  THEN [n EXCEPT !.key = ValidKeyAt(JsRem(key, Len(validKeys)))]
  ELSE n

\* MultiplyNode.constructor
MultiplyNode(key) ==
  validateKey([CipherNode("multiply", "Multiply") EXCEPT !.key = key], key)

\* MultiplyNode.setKey
MultiplyNodeSetKey(n, key) == validateKey(n, key)

\* one character of MultiplyNode.apply's map callback; undefined * code is NaN
MultiplyChar(char, key) ==
  IF ~IsUpper(char) THEN char
  ELSE LET code == char - 65
           multiplied == IF key = Undefined THEN Undefined ELSE JsRem(key * code, 26)
       IN IF multiplied = Undefined THEN FromCharCode(Undefined)
          ELSE FromCharCode(multiplied + 65)

\* MultiplyNode.apply(input, key)
MultiplyApply(input, key) ==
  LET up == toUpperCase(input) IN [i \in 1..Len(up) |-> MultiplyChar(up[i], key)]

(***************************************************************************)
(* Geometry utilities (src/nodes.js).                                      *)
(***************************************************************************)
Pt(x, y) == [x |-> x, y |-> y]

\* (p2.x - p1.x)^2 + (p2.y - p1.y)^2, the radicand of distance
Dist2(p1, p2) == (p2.x - p1.x) * (p2.x - p1.x) + (p2.y - p1.y) * (p2.y - p1.y)

\* distance(p1, p2), rounded down to a whole number: exact when the radicand
\* is a perfect square, and exact in every comparison with a whole number
distance(p1, p2) == Isqrt(Dist2(p1, p2))

\* vertices[(i + k) % vertices.length] for the 0-based index i
VertexAt(vertices, i) == vertices[(i % Len(vertices)) + 1]

\* the shoelace loop of polygonArea: the value of its variable area
Shoelace(vertices) ==
  LET F[i \in 0..Len(vertices)] ==
        IF i = 0 THEN 0
        ELSE F[i - 1]
             + VertexAt(vertices, i - 1).x * VertexAt(vertices, i).y
             - VertexAt(vertices, i).x * VertexAt(vertices, i - 1).y
  IN F[Len(vertices)]

\* polygonArea(vertices) in half units: 2 * Math.abs(area / 2)
polygonArea(vertices) == IF Len(vertices) < 3 THEN 0 ELSE Abs(Shoelace(vertices))

\* the cross product isConvex computes at the 0-based index i
Cross(vertices, i) ==
  LET p1 == VertexAt(vertices, i)
      p2 == VertexAt(vertices, i + 1)
      p3 == VertexAt(vertices, i + 2)
  IN (p2.x - p1.x) * (p3.y - p2.y) - (p2.y - p1.y) * (p3.x - p2.x)

\* the loop of isConvex from index i on, sign being "null", "pos" or "neg"
RECURSIVE IsConvexFrom(_, _, _)
IsConvexFrom(vertices, i, sign) ==
  IF i >= Len(vertices) THEN TRUE
  ELSE LET cross == Cross(vertices, i)
       IN IF cross # 0
          THEN IF sign = "null"
               THEN IsConvexFrom(vertices, i + 1, IF cross > 0 THEN "pos" ELSE "neg")
               ELSE IF (IF cross > 0 THEN "pos" ELSE "neg") # sign
                    THEN FALSE
                    ELSE IsConvexFrom(vertices, i + 1, sign)
          ELSE IsConvexFrom(vertices, i + 1, sign)

\* isConvex taking a cross product of 0 for a break of convexity
isConvexStrict(vertices) ==
  /\ Len(vertices) >= 3
  /\ \/ \A i \in 0..(Len(vertices) - 1) : Cross(vertices, i) > 0
     \/ \A i \in 0..(Len(vertices) - 1) : Cross(vertices, i) < 0

\* isConvex without its test of the length
isConvexAnyLength(vertices) == IsConvexFrom(vertices, 0, "null")

\* isConvex(vertices)
isConvex(vertices) ==
  IF Len(vertices) < 3 THEN FALSE ELSE IsConvexFrom(vertices, 0, "null")

\* getSideLengths(vertices)
getSideLengths(vertices) ==
  [i \in 1..Len(vertices) |-> distance(VertexAt(vertices, i - 1), VertexAt(vertices, i))]

\* calculateSideVariance(vertices): the standard deviation of the side
\* lengths, carried by its square num/den. With n lengths of sum S,
\* sum((len - S/n)^2) / n = sum((n*len - S)^2) / n^3.
calculateSideVariance(vertices) ==
  LET lengths == getSideLengths(vertices)
      n == Len(lengths)
      S == SumSeq(lengths)
  IN IF n = 0 THEN [num |-> 0, den |-> 1]
     ELSE [num |-> SumSeq([i \in 1..n |-> (n * lengths[i] - S) * (n * lengths[i] - S)]),
           den |-> n * n * n]

\* Math.floor(v * m) for a value v carried by its square
FloorTimes(v, m) == Isqrt((m * m * v.num) \div v.den)

minDist == 15
minArea == 100

\* the loop looking at consecutive vertices only
SomeNeighboursTooClose(vertices) ==
  \E i \in 1..(Len(vertices) - 1) :
    distance(vertices[i], vertices[i + 1]) < minDist

\* the all-pairs loop of validatePolygon: some pair is closer than minDist
SomePairTooClose(vertices) ==
  \E i \in 1..Len(vertices) : \E j \in (i + 1)..Len(vertices) :
    distance(vertices[i], vertices[j]) < minDist

\* validatePolygon looking for close vertices before counting them
validatePolygonPairsFirst(vertices, given) ==
  IF ~given \/ Len(vertices) < 3
  THEN [valid |-> FALSE, error |-> "Need at least 3 vertices", sides |-> 0]
  ELSE IF SomePairTooClose(vertices)
  THEN [valid |-> FALSE, error |-> "Vertices too close together", sides |-> 0]
  ELSE IF Len(vertices) > 12
  THEN [valid |-> FALSE, error |-> "Too many vertices (max 12)", sides |-> 0]
  ELSE IF polygonArea(vertices) < 2 * minArea
  THEN [valid |-> FALSE, error |-> "Polygon too small", sides |-> 0]
  ELSE [valid |-> TRUE, error |-> "", sides |-> Len(vertices)]

\* validatePolygon rejecting an area equal to the minimum
validatePolygonAreaStrict(vertices, given) ==
  IF ~given \/ Len(vertices) < 3
  THEN [valid |-> FALSE, error |-> "Need at least 3 vertices", sides |-> 0]
  ELSE IF Len(vertices) > 12
  THEN [valid |-> FALSE, error |-> "Too many vertices (max 12)", sides |-> 0]
  ELSE IF SomePairTooClose(vertices)
  THEN [valid |-> FALSE, error |-> "Vertices too close together", sides |-> 0]
  ELSE IF polygonArea(vertices) <= 2 * minArea
  THEN [valid |-> FALSE, error |-> "Polygon too small", sides |-> 0]
  ELSE [valid |-> TRUE, error |-> "", sides |-> Len(vertices)]

\* validatePolygon(vertices); given is FALSE when the argument is null or
\* undefined (the !vertices test)
validatePolygon(vertices, given) ==
  IF ~given \/ Len(vertices) < 3
  THEN [valid |-> FALSE, error |-> "Need at least 3 vertices", sides |-> 0]
  ELSE IF Len(vertices) > 12
  THEN [valid |-> FALSE, error |-> "Too many vertices (max 12)", sides |-> 0]
  ELSE IF SomePairTooClose(vertices)
  THEN [valid |-> FALSE, error |-> "Vertices too close together", sides |-> 0]
  ELSE IF polygonArea(vertices) < 2 * minArea
  THEN [valid |-> FALSE, error |-> "Polygon too small", sides |-> 0]
  ELSE [valid |-> TRUE, error |-> "", sides |-> Len(vertices)]

(***************************************************************************)
(* PolygonNode (src/nodes.js).                                             *)
(***************************************************************************)
\* n % 26 || 3
ShiftBase(n) == IF JsRem(n, 26) = 0 THEN 3 ELSE JsRem(n, 26)

\* PolygonNode.constructor
PolygonNode(vertices) ==
  [type |-> "polygon", name |-> "Polygon Cipher",
   vertices |-> vertices,
   sideLengths |-> getSideLengths(vertices),
   numSides |-> Len(vertices),
   convex |-> isConvex(vertices),
   sideVariance |-> calculateSideVariance(vertices),
   area |-> polygonArea(vertices),
   key |-> ShiftBase(Len(vertices))]

\* the key taken from the unused multiplyKey: floor(sideVariance * 5) % 12 || 3
PolygonMultiplyKeyUnused(n) ==
  IF JsRem(FloorTimes(n.sideVariance, 5), 12) = 0 THEN 3
  ELSE JsRem(FloorTimes(n.sideVariance, 5), 12)

\* the key of PolygonNode.apply's secondary stage
PolygonMultiplyKey(n) == ValidKeyAt(JsRem(FloorTimes(n.sideVariance, 2), Len(validKeys)))

\* apply running the secondary stage whether or not the polygon is convex
PolygonApplyBothAlways(n, input, key) ==
  LET shiftAmount == ShiftBase(n.numSides)
      up == toUpperCase(input)
      primary == [i \in 1..Len(up) |-> ShiftChar(up[i], shiftAmount)]
  IN [i \in 1..Len(primary) |-> MultiplyChar(primary[i], PolygonMultiplyKey(n))]

\* PolygonNode.apply(input, key)
PolygonApply(n, input, key) ==
  LET shiftAmount == ShiftBase(n.numSides)
      up == toUpperCase(input)
      primary == [i \in 1..Len(up) |-> ShiftChar(up[i], shiftAmount)]
  IN IF n.convex
     THEN [i \in 1..Len(primary) |-> MultiplyChar(primary[i], PolygonMultiplyKey(n))]
     ELSE primary

\* Math.round(v * m) for a value v carried by its square (toFixed's rounding)
RoundTimes(v, m) == (Isqrt((4 * m * m * v.num) \div v.den) + 1) \div 2

\* node.apply(input): the method of the node's class, key defaulting as the class says
Apply(n, input) ==
  CASE n.type = "shift" -> ShiftApply(input, n.key)
    [] n.type = "reverse" -> ReverseApply(input)
    [] n.type = "multiply" -> MultiplyApply(input, n.key)
    [] n.type = "polygon" -> PolygonApply(n, input, Undefined)

\* node.apply(input, key) with the key given by the caller
ApplyWithKey(n, input, key) ==
  CASE n.type = "shift" -> ShiftApply(input, key)
    [] n.type = "reverse" -> ReverseApply(input)
    [] n.type = "multiply" -> MultiplyApply(input, key)
    [] n.type = "polygon" -> PolygonApply(n, input, key)

\* node.setKey(key): MultiplyNode overrides it, the other classes inherit it
SetKeyOf(n, key) ==
  IF n.type = "multiply" THEN MultiplyNodeSetKey(n, key) ELSE CipherNodeSetKey(n, key)

\* node.describe(), as the parts of the string it builds
Describe(n) ==
  CASE n.type = "shift" -> <<n.name, "by", n.key>>
    [] n.type = "reverse" -> <<n.name>>
    [] n.type = "multiply" -> <<n.name, "by", n.key>>
    [] n.type = "polygon" ->
         <<n.name, n.numSides, IF n.convex THEN "Convex" ELSE "Concave",
           RoundTimes(n.sideVariance, 10)>>

\* PolygonNode.analyzeGeometry(): variance in hundredths, area rounded
analyzeGeometry(n) ==
  [sides |-> n.numSides, convex |-> n.convex,
   variance |-> RoundTimes(n.sideVariance, 100),
   area |-> (n.area + 1) \div 2,
   diffusionBoost |-> IF n.convex THEN "YES" ELSE "Limited"]

(***************************************************************************)
(* CipherPipeline (src/nodes.js). An entry of nodes is a reference to a    *)
(* node object: the object, and uid, the stamp of its insertion.           *)
(***************************************************************************)
\* CipherPipeline.addNode
addNode(ns, n, uid) == Append(ns, [uid |-> uid, node |-> n])

\* Array.prototype.splice(index, 1): a negative index counts from the end
Splice1(ns, index) ==
  LET len == Len(ns)
      start == IF index < 0
               THEN (IF len + index < 0 THEN 0 ELSE len + index)
               ELSE (IF index > len THEN len ELSE index)
  IN [i \in 1..(IF start < len THEN len - 1 ELSE len) |->
        IF i <= start THEN ns[i] ELSE ns[i + 1]]

\* CipherPipeline.removeNode
removeNode(ns, index) == Splice1(ns, index)

\* encrypt walking the nodes last to first
encryptBackwards(ns, input) ==
  LET result[i \in 0..Len(ns)] ==
        IF i = 0 THEN input ELSE Apply(ns[Len(ns) + 1 - i].node, result[i - 1])
  IN result[Len(ns)]

\* CipherPipeline.encrypt: the value of result after the loop's i-th node
encrypt(ns, input) ==
  LET result[i \in 0..Len(ns)] ==
        IF i = 0 THEN input ELSE Apply(ns[i].node, result[i - 1])
  IN result[Len(ns)]

\* CipherPipeline.isEmpty
isEmpty(ns) == Len(ns) = 0

\* CipherPipeline.length
length(ns) == Len(ns)

(***************************************************************************)
(* Numbers of the scoring (src/evaluator.js): millionths, and NaN.         *)
(***************************************************************************)
Micro == 1000000
NaN == -2000000000

\* a + b
JsAdd(a, b) == IF a = NaN \/ b = NaN THEN NaN ELSE a + b

\* Math.min(a, b)
JsMin(a, b) == IF a = NaN \/ b = NaN THEN NaN ELSE IF a < b THEN a ELSE b

\* Math.max(a, b)
JsMax(a, b) == IF a = NaN \/ b = NaN THEN NaN ELSE IF a > b THEN a ELSE b

\* a < b
JsLess(a, b) == a # NaN /\ b # NaN /\ a < b

\* Math.log2(n) in millionths, for n in 1..16
Log2Table ==
  <<0, 1000000, 1584962, 2000000, 2321928, 2584962, 2807354, 3000000,
    3169925, 3321928, 3459431, 3584962, 3700439, 3807354, 3906890, 4000000>>

Log2Micro(n) == Log2Table[n]

\* the sum of the values of a function with a finite domain
RECURSIVE SumFn(_)
SumFn(f) ==
  IF DOMAIN f = {} THEN 0
  ELSE LET x == CHOOSE y \in DOMAIN f : TRUE
       IN f[x] + SumFn([y \in (DOMAIN f) \ {x} |-> f[y]])

(***************************************************************************)
(* Scoring (src/evaluator.js). The file defines evaluateCipher and         *)
(* estimateKeySpace twice; a later function declaration replaces an        *)
(* earlier one, so the definitions in effect are the second ones.          *)
(***************************************************************************)
\* the object frequencies: how often each character of text occurs
Frequencies(text0) ==
  [c \in {text0[i] : i \in 1..Len(text0)} |->
     Cardinality({i \in 1..Len(text0) : text0[i] = c})]

\* calculateEntropy(text): the sum of -p * log2(p), p = frequency / length
calculateEntropy(text0) ==
  LET frequencies == Frequencies(text0)
      len == Len(text0)
  IN SumFn([c \in DOMAIN frequencies |->
              (frequencies[c] * (Log2Micro(len) - Log2Micro(frequencies[c]))) \div len])

\* calculateDiffusion(plaintext, ciphertext): 0 / 0 is NaN
calculateDiffusion(plaintext, ciphertext) ==
  IF Len(plaintext) # Len(ciphertext) THEN 50 * Micro
  ELSE LET changes == Cardinality({i \in 1..Len(plaintext) : plaintext[i] # ciphertext[i]})
       IN IF Len(plaintext) = 0 THEN NaN
          ELSE (changes * 100 * Micro) \div Len(plaintext)

\* analyzeFrequencySkew(text), carried by its square num/den: with n letter
\* counts of sum S, (stdDev / avgFreq)^2 = sum((n*f - S)^2) / (n * S^2)
analyzeFrequencySkew(text0) ==
  LET frequencies == Frequencies(SelectSeq(text0, IsUpper))
      n == Cardinality(DOMAIN frequencies)
      S == SumFn(frequencies)
      V == SumFn([c \in DOMAIN frequencies |->
                    (n * frequencies[c] - S) * (n * frequencies[c] - S)])
  IN IF n = 0 THEN [num |-> 10000, den |-> 1]
     ELSE IF V >= n * S * S THEN [num |-> 10000, den |-> 1]
     ELSE [num |-> 10000 * V, den |-> n * S * S]

\* v < m for a value v carried by its square
SquareLess(v, m) == v.num < m * m * v.den

\* isSimpleReversal(plaintext, ciphertext)
isSimpleReversal(plaintext, ciphertext) == ReverseSeq(plaintext) = ciphertext

\* isIdentical(plaintext, ciphertext)
isIdentical(plaintext, ciphertext) == plaintext = ciphertext

\* Math.log2(26) and Math.log2(12), in millionths
Log2Of26 == 4700439
Log2Of12 == 3584962

\* estimateKeySpace giving a polygon the 3 bits of the first definition's
\* convex polygons
estimateKeySpacePolygonBonus(pipeline) ==
  SumSeq([i \in 1..Len(pipeline) |->
            CASE pipeline[i].node.type = "shift" -> Log2Of26
              [] pipeline[i].node.type = "multiply" -> Log2Of12
              [] pipeline[i].node.type = "reverse" -> Micro
              [] pipeline[i].node.type = "polygon" -> 3 * Micro
              [] OTHER -> Micro])

\* estimateKeySpace(pipeline): the bits of the nodes, by node type
estimateKeySpace(pipeline) ==
  SumSeq([i \in 1..Len(pipeline) |->
            CASE pipeline[i].node.type = "shift" -> Log2Of26
              [] pipeline[i].node.type = "multiply" -> Log2Of12
              [] pipeline[i].node.type = "reverse" -> Micro
              [] OTHER -> Micro])

\* evaluateCipher with other weights: w.base, the caps and factors of the
\* three boosts and the five penalties; only the first penalty that applies
\* is taken when exclusive
EvaluateVariant(plaintext, ciphertext, pipeline, w, exclusive) ==
  LET entropyDelta == JsMax(0, calculateEntropy(ciphertext) - calculateEntropy(plaintext))
      entropyBoost == JsMin(w.entropyCap * Micro, entropyDelta * w.entropyFactor)
      diffusion == calculateDiffusion(plaintext, ciphertext)
      diffusionScore ==
        JsMin(w.diffusionCap * Micro,
              IF diffusion = NaN THEN NaN ELSE (diffusion * w.diffusionCap) \div 100)
      keySpaceScore == JsMin(w.keySpaceCap * Micro, estimateKeySpace(pipeline))
      hits == <<isIdentical(plaintext, ciphertext),
                isSimpleReversal(plaintext, ciphertext),
                JsLess(diffusion, 30 * Micro),
                SquareLess(analyzeFrequencySkew(ciphertext), 20),
                pipeline = <<>> >>
      penalties ==
        SumSeq([i \in 1..5 |->
                  IF hits[i] /\ (~exclusive \/ \A j \in 1..(i - 1) : ~hits[j])
                  THEN -(w.penalty[i] * Micro) ELSE 0])
      score ==
        JsAdd(JsAdd(JsAdd(JsAdd(w.base * Micro, entropyBoost), diffusionScore),
                    keySpaceScore), penalties)
  IN [base |-> w.base * Micro, entropy |-> entropyBoost, diffusion |-> diffusionScore,
      keySpace |-> keySpaceScore, penalties |-> penalties,
      final |-> JsMax(0, JsMin(100 * Micro, score))]

\* the weights of the first definition of evaluateCipher
FirstWeights ==
  [base |-> 75, entropyCap |-> 35, entropyFactor |-> 12, diffusionCap |-> 25,
   keySpaceCap |-> 15, penalty |-> <<15, 10, 5, 3, 25>>]

\* the weights of the definition in effect
SecondWeights ==
  [base |-> 60, entropyCap |-> 20, entropyFactor |-> 8, diffusionCap |-> 12,
   keySpaceCap |-> 8, penalty |-> <<25, 15, 10, 5, 40>>]

\* the first definition of evaluateCipher, which the second replaces
evaluateCipherFirst(plaintext, ciphertext, pipeline) ==
  EvaluateVariant(plaintext, ciphertext, pipeline, FirstWeights, FALSE)

\* evaluateCipher with its penalties in an if / else-if chain
evaluateCipherOnePenalty(plaintext, ciphertext, pipeline) ==
  EvaluateVariant(plaintext, ciphertext, pipeline, SecondWeights, TRUE)

\* evaluateCipher(plaintext, ciphertext, pipeline), the definition in effect
evaluateCipher(plaintext, ciphertext, pipeline) ==
  LET base == 60 * Micro
      ciphertextEntropy == calculateEntropy(ciphertext)
      plaintextEntropy == calculateEntropy(plaintext)
      entropyDelta == JsMax(0, ciphertextEntropy - plaintextEntropy)
      entropyBoost == JsMin(20 * Micro, entropyDelta * 8)
      diffusion == calculateDiffusion(plaintext, ciphertext)
      diffusionScore ==
        JsMin(12 * Micro, IF diffusion = NaN THEN NaN ELSE (diffusion * 12) \div 100)
      keySpaceBits == estimateKeySpace(pipeline)
      keySpaceScore == JsMin(8 * Micro, keySpaceBits)
      score3 == JsAdd(JsAdd(JsAdd(base, entropyBoost), diffusionScore), keySpaceScore)
      identical == IF isIdentical(plaintext, ciphertext) THEN 25 * Micro ELSE 0
      reversal == IF isSimpleReversal(plaintext, ciphertext) THEN 15 * Micro ELSE 0
      lowDiffusion == IF JsLess(diffusion, 30 * Micro) THEN 10 * Micro ELSE 0
      freqSkew == analyzeFrequencySkew(ciphertext)
      uniform == IF SquareLess(freqSkew, 20) THEN 5 * Micro ELSE 0
      noPipeline == IF isEmpty(pipeline) THEN 40 * Micro ELSE 0
      penalties == 0 - identical - reversal - lowDiffusion - uniform - noPipeline
      score == JsAdd(score3, penalties)
  IN [base |-> base, entropy |-> entropyBoost, diffusion |-> diffusionScore,
      keySpace |-> keySpaceScore, penalties |-> penalties,
      final |-> JsMax(0, JsMin(100 * Micro, score))]

\* checkPass(score, threshold), threshold defaulting to 60
checkPass(score, threshold) == ~(score = NaN) /\ score >= threshold

(***************************************************************************)
(* Attacks (src/attack.js). totalCombinations is carried as the pair       *)
(* hi, lo with totalCombinations = hi * testRate + lo and 0 <= lo <        *)
(* testRate, so that hi is the whole part of secondsNeeded.                *)
(***************************************************************************)
testRate == 1000000

\* the largest value of a function with a non-empty finite domain
MaxFn(f) == CHOOSE m \in {f[x] : x \in DOMAIN f} : \A x \in DOMAIN f : f[x] <= m

\* Math.round(num / den) and toFixed's rounding, for num >= 0 and den > 0
RoundDiv(num, den) == (2 * num + den) \div (2 * den)

\* frequencyAnalysisAttack with the 20% of its comment for the 0.15 of its code
frequencyAnalysisAttackTwenty(ciphertext) ==
  LET letters == SelectSeq(ciphertext, IsUpper)
      L == Len(letters)
      top == MaxFn(Frequencies(letters))
      penalty == IF 100 * top - 20 * L < 0 THEN 0
                 ELSE IF 100 * top - 20 * L > 30 * L THEN 30 * L
                 ELSE 100 * top - 20 * L
  IN IF L = 0 THEN [penalty |-> 0, description |-> <<"No letters to analyze.">>]
     ELSE [penalty |-> RoundDiv(penalty, L),
           description |-> <<"Top letter frequency", RoundDiv(1000 * top, L)>>]

\* frequencyAnalysisAttack(ciphertext). With L letters of which the most
\* frequent occurs top times, domination is dominationNum / (100 * L) and
\* penalty is penaltyNum / L; the description holds the percentage in tenths.
frequencyAnalysisAttack(ciphertext) ==
  LET letters == SelectSeq(ciphertext, IsUpper)
      L == Len(letters)
      top == MaxFn(Frequencies(letters))
      dominationNum == IF 100 * top - 15 * L > 0 THEN 100 * top - 15 * L ELSE 0
      penaltyNum == IF dominationNum > 30 * L THEN 30 * L ELSE dominationNum
  IN IF L = 0 THEN [penalty |-> 0, description |-> <<"No letters to analyze.">>]
     ELSE [penalty |-> RoundDiv(penaltyNum, L),
           description |-> <<"Top letter frequency", RoundDiv(1000 * top, L)>>]

\* totalCombinations *= keySpace
TimesKeySpace(total, keySpace) ==
  [hi |-> total.hi * keySpace + (total.lo * keySpace) \div testRate,
   lo |-> (total.lo * keySpace) % testRate]

\* the switch of bruteForceAttack: keySpace and nodeName of a node
NodeKeySpace(n) ==
  CASE n.type = "shift" -> [keySpace |-> 26, nodeName |-> "Shift (26 keys)"]
    [] n.type = "multiply" -> [keySpace |-> 12, nodeName |-> "Multiply (12 keys)"]
    [] n.type = "reverse" -> [keySpace |-> 2, nodeName |-> "Reverse (2 states)"]
    [] OTHER -> [keySpace |-> 2, nodeName |-> ""]

\* the loop of bruteForceAttack: totalCombinations after the first i nodes
TotalCombinations(pipeline) ==
  LET F[i \in 0..Len(pipeline)] ==
        IF i = 0 THEN [hi |-> 0, lo |-> 1]
        ELSE TimesKeySpace(F[i - 1], NodeKeySpace(pipeline[i].node).keySpace)
  IN F[Len(pipeline)]

\* bruteForceAttack testing its buckets from the last to the first
bruteForceAttackLastFirst(pipeline) ==
  LET total == TotalCombinations(pipeline)
      bucket == IF total.hi < 24 * 60 * 60 THEN [penalty |-> 5, unit |-> "h"]
                ELSE [penalty |-> 0, unit |-> "days"]
  IN [penalty |-> bucket.penalty, combinations |-> total, timeNeeded |-> bucket.unit,
      components |-> [i \in 1..Len(pipeline) |-> NodeKeySpace(pipeline[i].node).nodeName],
      description |-> <<"Brute force would take ~", bucket.unit>>]

\* bruteForceAttack(pipeline); of the time string only the unit is kept
bruteForceAttack(pipeline) ==
  LET total == TotalCombinations(pipeline)
      bucket == IF total.hi < 1 THEN [penalty |-> 40, unit |-> "ms"]
                ELSE IF total.hi < 60 THEN [penalty |-> 30, unit |-> "s"]
                ELSE IF total.hi < 60 * 60 THEN [penalty |-> 15, unit |-> "m"]
                ELSE IF total.hi < 24 * 60 * 60 THEN [penalty |-> 5, unit |-> "h"]
                ELSE [penalty |-> 0, unit |-> "days"]
  IN [penalty |-> bucket.penalty, combinations |-> total, timeNeeded |-> bucket.unit,
      components |-> [i \in 1..Len(pipeline) |-> NodeKeySpace(pipeline[i].node).nodeName],
      description |-> <<"Brute force would take ~", bucket.unit>>]

\* runAttacks capping nothing and animating only above the cap
runAttacksUncapped(plaintext, ciphertext, pipeline) ==
  LET freqAttack == frequencyAnalysisAttack(ciphertext)
      bfAttack == bruteForceAttack(pipeline)
      totalPenalty == freqAttack.penalty + bfAttack.penalty
  IN [attacks |-> <<[name |-> "Frequency Analysis", penalty |-> freqAttack.penalty,
                     description |-> freqAttack.description],
                    [name |-> "Brute Force Estimation", penalty |-> bfAttack.penalty,
                     description |-> bfAttack.description]>>,
      totalPenalty |-> totalPenalty,
      summary |-> <<2, "attacks simulated. Total threat level", 2 * totalPenalty>>,
      showAnimation |-> totalPenalty > 50]

\* runAttacks(plaintext, ciphertext, pipeline); the summary holds the count
\* of attacks and the threat level in percent, (totalPenalty / 50 * 100)
runAttacks(plaintext, ciphertext, pipeline) ==
  LET freqAttack == frequencyAnalysisAttack(ciphertext)
      bfAttack == bruteForceAttack(pipeline)
      totalPenalty == freqAttack.penalty + bfAttack.penalty
  IN [attacks |-> <<[name |-> "Frequency Analysis", penalty |-> freqAttack.penalty,
                     description |-> freqAttack.description],
                    [name |-> "Brute Force Estimation", penalty |-> bfAttack.penalty,
                     description |-> bfAttack.description]>>,
      totalPenalty |-> IF totalPenalty > 50 THEN 50 ELSE totalPenalty,
      summary |-> <<2, "attacks simulated. Total threat level", 2 * totalPenalty>>,
      showAnimation |-> totalPenalty > 0]

\* detectPatterns without the break of its second loop: one warning a run
detectPatternsNoBreak(ciphertext) ==
  LET digrams == Frequencies([i \in 1..(Len(ciphertext) - 1) |-> SubSeq(ciphertext, i, i + 1)])
      repeatedDigrams == {d \in DOMAIN digrams : digrams[d] > 1}
      runs == {i \in 1..(Len(ciphertext) - 2) :
                 /\ ciphertext[i + 1] = ciphertext[i] + 1
                 /\ ciphertext[i + 2] = ciphertext[i + 1] + 1}
  IN (IF repeatedDigrams # {}
      THEN <<"Repeating letter pairs detected (digram weakness)">> ELSE <<>>)
     \o [k \in 1..Cardinality(runs) |-> "Alphabetic sequence detected (structural weakness)"]

\* detectPatterns(ciphertext): the array warnings
detectPatterns(ciphertext) ==
  LET digrams == Frequencies([i \in 1..(Len(ciphertext) - 1) |-> SubSeq(ciphertext, i, i + 1)])
      repeatedDigrams == {d \in DOMAIN digrams : digrams[d] > 1}
      found == \E i \in 1..(Len(ciphertext) - 2) :
                 LET a == ciphertext[i]
                     b == ciphertext[i + 1]
                     c == ciphertext[i + 2]
                 IN b = a + 1 /\ c = b + 1
  IN (IF repeatedDigrams # {}
      THEN <<"Repeating letter pairs detected (digram weakness)">> ELSE <<>>)
     \o (IF found
         THEN <<"Alphabetic sequence detected (structural weakness)">> ELSE <<>>)

(***************************************************************************)
(* Inputs.                                                                 *)
(***************************************************************************)
\* 'A', 'W', 'n', ' '
Chars == {65, 87, 110, 32}

Texts == UNION {[1..n -> Chars] : n \in 0..MaxLen}

Keys == {-13, -12, -3, -1, 0, 3, 4, 13, 23, 26, 27}

\* keys a caller hands to apply(input, key)
ArgKeys == {-3, 5}

\* points at distances 15 (the limit), below it and above it from one another,
\* three of them on one line
Pts == {Pt(0, 0), Pt(15, 0), Pt(30, 0), Pt(9, 12), Pt(0, 20)}

\* a convex kite and the concave dart with the same side lengths 13, 20, 20, 13
Kite == <<Pt(0, 0), Pt(12, 5), Pt(0, 21), Pt(-12, 5)>>
Dart == <<Pt(0, 10), Pt(12, 5), Pt(0, 21), Pt(-12, 5)>>

\* the same with side lengths 75, 87, 87, 75
Kite75 == <<Pt(0, 0), Pt(60, 45), Pt(0, 108), Pt(-60, 45)>>
Dart75 == <<Pt(0, 90), Pt(60, 45), Pt(0, 108), Pt(-60, 45)>>

Square20 == <<Pt(0, 0), Pt(20, 0), Pt(20, 20), Pt(0, 20)>>
Square10 == <<Pt(0, 0), Pt(10, 0), Pt(10, 10), Pt(0, 10)>>
Tri345 == <<Pt(0, 0), Pt(30, 0), Pt(0, 40)>>
\* triangles of area 100, 97.5 and 80 with no two vertices close
Tri100 == <<Pt(0, 0), Pt(40, 0), Pt(20, 5)>>
TriUnder == <<Pt(0, 0), Pt(39, 0), Pt(20, 5)>>
TriThin == <<Pt(0, 0), Pt(40, 0), Pt(20, 4)>>
Gon12 == <<Pt(40, 0), Pt(35, 20), Pt(20, 35), Pt(0, 40), Pt(-20, 35), Pt(-35, 20),
           Pt(-40, 0), Pt(-35, -20), Pt(-20, -35), Pt(0, -40), Pt(20, -35), Pt(35, -20)>>
Gon13 == Append(Gon12, Pt(0, 0))

\* a five-pointed star drawn in one stroke: every turn goes the same way
Pentagram == <<Pt(0, 40), Pt(24, -32), Pt(-38, 12), Pt(38, 12), Pt(-24, -32)>>

\* n points, alternately (0,0) and (1,0)
AltList(n) == [i \in 1..n |-> IF i % 2 = 1 THEN Pt(0, 0) ELSE Pt(1, 0)]

\* the ciphertexts the scoring and the attacks are called with: every string of
\* 'A' and 'B' up to MaxLen, and
\*   "HELLO", "ABCDEFG" (no letter above 15%), "ABCD" and "ABCE" (one
\*   character in four changed), "AAB" (uneven letter counts), " " and "ab"
\*   (no letter A-Z), "ABCDEF" (top letter at 1/6), "ABAB" (a digram
\*   twice), "ABCXYZ" (runs of three), "ABCABC" (both)
Hello == <<72, 69, 76, 76, 79>>
EvalTexts ==
  UNION {[1..n -> {65, 66}] : n \in 0..MaxLen}
    \cup {Hello, <<65, 66, 67, 68, 69, 70, 71>>, <<65, 66, 67, 68>>, <<65, 66, 67, 69>>,
          <<65, 65, 66>>, <<32>>, <<97, 98>>, <<65, 66, 67, 68, 69, 70>>,
          <<65, 66, 65, 66>>, <<65, 66, 67, 88, 89, 90>>, <<65, 66, 67, 65, 66, 67>>}

\* the plaintexts: every string of 'A' and 'B' up to MaxLen, "HELLO", "ABCD"
PlainTexts ==
  UNION {[1..n -> {65, 66}] : n \in 0..MaxLen} \cup {Hello, <<65, 66, 67, 68>>}

\* the pipeline holding the node objects of ns in their order
PipelineOf(ns) == [i \in 1..Len(ns) |-> [uid |-> i, node |-> ns[i]]]

\* the node objects the scored pipelines are made of, one of each class
EvalNodes == {ShiftNode(3), ReverseNode, MultiplyNode(5), PolygonNode(Kite)}

\* the pipelines the scoring and the attacks are called with: every
\* pipeline of up to MaxNodes nodes, and pipelines of 4 to 8 shift nodes,
\* of 8 reverse nodes and of 2 multiply nodes after 7 shift nodes
EvalPipelines ==
  {PipelineOf(ns) : ns \in UNION {[1..n -> EvalNodes] : n \in 0..MaxNodes}}
    \cup {PipelineOf([i \in 1..n |-> ShiftNode(3)]) : n \in 4..8}
    \cup {PipelineOf([i \in 1..8 |-> ReverseNode]),
          PipelineOf([i \in 1..9 |-> IF i <= 7 THEN ShiftNode(3) ELSE MultiplyNode(5)])}

\* vertex lists PolygonNode is built from: every side a whole number
Shapes == {<<>>, <<Pt(7, 7)>>, <<Pt(0, 0), Pt(12, 5)>>, Kite, Dart, Kite75, Dart75, Square20, Square10, Tri345,
           AltList(26), AltList(27)}

\* vertex lists validatePolygon is called with
VertexLists ==
  UNION {[1..n -> Pts] : n \in 0..MaxVerts}
    \cup {Kite75, Square20, Square10, Tri345, Tri100, TriUnder, TriThin, Gon12, Gon13,
          AltList(13), Pentagram}

(***************************************************************************)
(* State machines. A call records its name in op, its argument in arg and  *)
(* the value it returns in ret; a call that returns nothing leaves NoValue.*)
(***************************************************************************)
NoValue == "undefined"
NoNode == [type |-> "none"]

\* what no specification has touched yet
Fresh ==
  /\ cipher = <<>>
  /\ nodes = <<>>
  /\ nextUid = 1
  /\ node = NoNode
  /\ op = "init"
  /\ arg = NoValue
  /\ ret = NoValue
  /\ game = NoValue
  /\ polygonBuilder = NoValue

\* the pipeline and single nodes: the driver holds any string
Init == Fresh /\ text \in Texts /\ verts = <<>>

\* the geometry functions: the driver holds any vertex list
InitGeom == Fresh /\ text = <<>> /\ verts \in VertexLists

\* node objects the driver appends to the pipeline
PipeNodes ==
  {ShiftNode(3), ShiftNode(23), ShiftNode(-3), ReverseNode, MultiplyNode(5),
   PolygonNode(Kite)}

\* the pipeline holds at most MaxNodes nodes out of MaxUid objects ever made
MaxUid == MaxNodes + 1

(* ---- the pipeline ---- *)
AddNode(n) ==
  /\ Len(nodes) < MaxNodes
  /\ nextUid <= MaxUid
  /\ nodes' = addNode(nodes, n, nextUid)
  /\ nextUid' = nextUid + 1
  /\ op' = "addNode"
  /\ arg' = n
  /\ ret' = NoValue
  /\ UNCHANGED <<game, polygonBuilder, text, cipher, verts, node>>

RemoveNode(index) ==
  /\ nodes' = removeNode(nodes, index)
  /\ op' = "removeNode"
  /\ arg' = index
  /\ ret' = NoValue
  /\ UNCHANGED <<game, polygonBuilder, text, cipher, verts, nextUid, node>>

Clear ==
  /\ nodes' = <<>>
  /\ op' = "clear"
  /\ arg' = NoValue
  /\ ret' = NoValue
  /\ UNCHANGED <<game, polygonBuilder, text, cipher, verts, nextUid, node>>

Encrypt ==
  /\ op' = "encrypt"
  /\ arg' = text
  /\ ret' = encrypt(nodes, text)
  /\ UNCHANGED <<game, polygonBuilder, text, cipher, verts, nodes, nextUid, node>>

IsEmpty ==
  /\ op' = "isEmpty"
  /\ arg' = NoValue
  /\ ret' = isEmpty(nodes)
  /\ UNCHANGED <<game, polygonBuilder, text, cipher, verts, nodes, nextUid, node>>

Length ==
  /\ op' = "length"
  /\ arg' = NoValue
  /\ ret' = length(nodes)
  /\ UNCHANGED <<game, polygonBuilder, text, cipher, verts, nodes, nextUid, node>>

Next ==
  \/ \E n \in PipeNodes : AddNode(n)
  \/ \E index \in -2..MaxNodes : RemoveNode(index)
  \/ Clear
  \/ Encrypt
  \/ IsEmpty
  \/ Length

Spec == Init /\ [][Next]_vars

(* ---- one node object ---- *)
NewShiftNode(key) ==
  /\ node = NoNode
  /\ node' = ShiftNode(key)
  /\ op' = "new ShiftNode"
  /\ arg' = key
  /\ ret' = NoValue
  /\ UNCHANGED <<game, polygonBuilder, text, cipher, verts, nodes, nextUid>>

NewReverseNode ==
  /\ node = NoNode
  /\ node' = ReverseNode
  /\ op' = "new ReverseNode"
  /\ arg' = NoValue
  /\ ret' = NoValue
  /\ UNCHANGED <<game, polygonBuilder, text, cipher, verts, nodes, nextUid>>

NewMultiplyNode(key) ==
  /\ node = NoNode
  /\ node' = MultiplyNode(key)
  /\ op' = "new MultiplyNode"
  /\ arg' = key
  /\ ret' = NoValue
  /\ UNCHANGED <<game, polygonBuilder, text, cipher, verts, nodes, nextUid>>

NewPolygonNode(shape) ==
  /\ node = NoNode
  /\ node' = PolygonNode(shape)
  /\ op' = "new PolygonNode"
  /\ arg' = shape
  /\ ret' = NoValue
  /\ UNCHANGED <<game, polygonBuilder, text, cipher, verts, nodes, nextUid>>

NodeSetKey(key) ==
  /\ node # NoNode
  /\ node' = SetKeyOf(node, key)
  /\ op' = "setKey"
  /\ arg' = key
  /\ ret' = NoValue
  /\ UNCHANGED <<game, polygonBuilder, text, cipher, verts, nodes, nextUid>>

NodeApply ==
  /\ node # NoNode
  /\ op' = "apply"
  /\ arg' = text
  /\ ret' = Apply(node, text)
  /\ UNCHANGED <<game, polygonBuilder, text, cipher, verts, nodes, nextUid, node>>

NodeApplyWithKey(key) ==
  /\ node # NoNode
  /\ op' = "apply with key"
  /\ arg' = key
  /\ ret' = ApplyWithKey(node, text, key)
  /\ UNCHANGED <<game, polygonBuilder, text, cipher, verts, nodes, nextUid, node>>

NodeDescribe ==
  /\ node # NoNode
  /\ op' = "describe"
  /\ arg' = NoValue
  /\ ret' = Describe(node)
  /\ UNCHANGED <<game, polygonBuilder, text, cipher, verts, nodes, nextUid, node>>

NodeAnalyzeGeometry ==
  /\ node.type = "polygon"
  /\ op' = "analyzeGeometry"
  /\ arg' = NoValue
  /\ ret' = analyzeGeometry(node)
  /\ UNCHANGED <<game, polygonBuilder, text, cipher, verts, nodes, nextUid, node>>

NextNode ==
  \/ \E key \in Keys : NewShiftNode(key)
  \/ NewReverseNode
  \/ \E key \in Keys : NewMultiplyNode(key)
  \/ \E shape \in Shapes : NewPolygonNode(shape)
  \/ \E key \in Keys : NodeSetKey(key)
  \/ NodeApply
  \/ \E key \in ArgKeys : NodeApplyWithKey(key)
  \/ NodeDescribe
  \/ NodeAnalyzeGeometry

SpecNode == Init /\ [][NextNode]_vars

(* ---- the geometry functions ---- *)
ValidatePolygon ==
  /\ op' = "validatePolygon"
  /\ arg' = verts
  /\ ret' = validatePolygon(verts, TRUE)
  /\ UNCHANGED <<game, polygonBuilder, text, cipher, verts, nodes, nextUid, node>>

\* validatePolygon(null)
ValidateNoList ==
  /\ op' = "validatePolygon(null)"
  /\ arg' = NoValue
  /\ ret' = validatePolygon(<<>>, FALSE)
  /\ UNCHANGED <<game, polygonBuilder, text, cipher, verts, nodes, nextUid, node>>

PolygonArea ==
  /\ op' = "polygonArea"
  /\ arg' = verts
  /\ ret' = polygonArea(verts)
  /\ UNCHANGED <<game, polygonBuilder, text, cipher, verts, nodes, nextUid, node>>

IsConvex ==
  /\ op' = "isConvex"
  /\ arg' = verts
  /\ ret' = isConvex(verts)
  /\ UNCHANGED <<game, polygonBuilder, text, cipher, verts, nodes, nextUid, node>>

NextGeom ==
  \/ ValidatePolygon
  \/ ValidateNoList
  \/ PolygonArea
  \/ IsConvex

SpecGeom == InitGeom /\ [][NextGeom]_vars

(* ---- the scoring and the attacks ---- *)
\* the driver holds any plaintext, any ciphertext and any pipeline
InitEval ==
  /\ text \in PlainTexts
  /\ cipher \in EvalTexts
  /\ verts = <<>>
  /\ nodes \in EvalPipelines
  /\ nextUid = Len(nodes) + 1
  /\ node = NoNode
  /\ op = "init"
  /\ arg = NoValue
  /\ ret = NoValue
  /\ game = NoValue
  /\ polygonBuilder = NoValue

EvaluateCipher ==
  /\ op' = "evaluateCipher"
  /\ arg' = NoValue
  /\ ret' = evaluateCipher(text, cipher, nodes)
  /\ UNCHANGED <<game, polygonBuilder, text, cipher, verts, nodes, nextUid, node>>

EstimateKeySpace ==
  /\ op' = "estimateKeySpace"
  /\ arg' = NoValue
  /\ ret' = estimateKeySpace(nodes)
  /\ UNCHANGED <<game, polygonBuilder, text, cipher, verts, nodes, nextUid, node>>

FrequencyAnalysisAttack ==
  /\ op' = "frequencyAnalysisAttack"
  /\ arg' = NoValue
  /\ ret' = frequencyAnalysisAttack(cipher)
  /\ UNCHANGED <<game, polygonBuilder, text, cipher, verts, nodes, nextUid, node>>

BruteForceAttack ==
  /\ op' = "bruteForceAttack"
  /\ arg' = NoValue
  /\ ret' = bruteForceAttack(nodes)
  /\ UNCHANGED <<game, polygonBuilder, text, cipher, verts, nodes, nextUid, node>>

RunAttacks ==
  /\ op' = "runAttacks"
  /\ arg' = NoValue
  /\ ret' = runAttacks(text, cipher, nodes)
  /\ UNCHANGED <<game, polygonBuilder, text, cipher, verts, nodes, nextUid, node>>

DetectPatterns ==
  /\ op' = "detectPatterns"
  /\ arg' = NoValue
  /\ ret' = detectPatterns(cipher)
  /\ UNCHANGED <<game, polygonBuilder, text, cipher, verts, nodes, nextUid, node>>

NextEval ==
  \/ DetectPatterns
  \/ EvaluateCipher
  \/ EstimateKeySpace
  \/ FrequencyAnalysisAttack
  \/ BruteForceAttack
  \/ RunAttacks

SpecEval == InitEval /\ [][NextEval]_vars

(***************************************************************************)
(* The game (src/game.js) and its polygon builder (polygon-builder.js).    *)
(* The game object's plaintext, ciphertext and pipeline.nodes are the      *)
(* variables text, cipher and nodes; game holds its currentLevel,          *)
(* lastScore, lastResults and gameState; polygonBuilder holds the          *)
(* builder's vertices, draggingVertex, isValid and validationError.        *)
(* Scores and thresholds are in millionths.                                *)
(***************************************************************************)
Null == -2100000000

\* this.levels of src/game.js
levels ==
  <<[level |-> 1, plaintext |-> <<83, 73, 71, 78, 65, 76>>, threshold |-> 40,
     maxVertices |-> 5, maxNodes |-> 1, targetSides |-> <<3>>, targetConvex |-> TRUE],
    [level |-> 2, plaintext |-> <<87, 65, 86, 69>>, threshold |-> 42,
     maxVertices |-> 6, maxNodes |-> 1, targetSides |-> <<4>>, targetConvex |-> TRUE],
    [level |-> 3, plaintext |-> <<67, 82, 89, 80, 84, 79>>, threshold |-> 43,
     maxVertices |-> 7, maxNodes |-> 1, targetSides |-> <<5>>, targetConvex |-> TRUE],
    [level |-> 4, plaintext |-> <<77, 69, 83, 83, 65, 71, 69>>, threshold |-> 44,
     maxVertices |-> 8, maxNodes |-> 1, targetSides |-> <<6>>, targetConvex |-> TRUE],
    [level |-> 5, plaintext |-> <<69, 78, 67, 79, 68, 69, 68>>, threshold |-> 45,
     maxVertices |-> 9, maxNodes |-> 1, targetSides |-> <<7>>, targetConvex |-> TRUE],
    [level |-> 6, plaintext |-> <<67, 73, 80, 72, 69, 82>>, threshold |-> 46,
     maxVertices |-> 10, maxNodes |-> 1, targetSides |-> <<8>>, targetConvex |-> TRUE],
    [level |-> 7, plaintext |-> <<84, 82, 65, 78, 83, 77, 73, 84>>, threshold |-> 47,
     maxVertices |-> 11, maxNodes |-> 2, targetSides |-> <<4, 5>>, targetConvex |-> TRUE],
    [level |-> 8, plaintext |-> <<83, 69, 67, 85, 82, 73, 84, 89>>, threshold |-> 48,
     maxVertices |-> 12, maxNodes |-> 2, targetSides |-> <<5, 6>>, targetConvex |-> TRUE],
    [level |-> 9, plaintext |-> <<67, 76, 65, 83, 83, 73, 70, 73, 69, 68>>, threshold |-> 49,
     maxVertices |-> 11, maxNodes |-> 2, targetSides |-> <<6, 7>>, targetConvex |-> TRUE],
    [level |-> 10, plaintext |-> <<69, 78, 67, 82, 89, 80, 84, 69, 68>>, threshold |-> 50,
     maxVertices |-> 10, maxNodes |-> 2, targetSides |-> <<7, 8>>, targetConvex |-> TRUE]>>

\* lastResults before the first transmitSignal, and after resetCipher
UndefinedResults == [kind |-> "undefined"]
NullResults == [kind |-> "null"]

\* getCurrentLevel(): this.levels[this.currentLevel - 1]
getCurrentLevel(g) == levels[g.currentLevel]

\* the entries of the pipeline holding polygon nodes
PolygonEntries(ns) == SelectSeq(ns, LAMBDA e : e.node.type = "polygon")

\* checkObjectiveMet()
checkObjectiveMet(g, ns) ==
  LET levelData == getCurrentLevel(g)
      polygons == PolygonEntries(ns)
      nodesSides == {polygons[i].node.numSides : i \in 1..Len(polygons)}
      missing == SelectSeq(levelData.targetSides, LAMBDA t : t \notin nodesSides)
      concave == levelData.targetConvex
                   /\ \E i \in 1..Len(polygons) : ~polygons[i].node.convex
      polygonNodeCount == Len(polygons)
      tooMany == polygonNodeCount > levelData.maxNodes
  IN [met |-> missing = <<>> /\ ~concave /\ ~tooMany,
      reasons |->
        [i \in 1..Len(missing) |-> [text |-> "Missing n-sided polygon", n |-> missing[i]]]
          \o (IF concave
              THEN <<[text |-> "All polygons must be convex", n |-> 0]>> ELSE <<>>)
          \o (IF tooMany
              THEN <<[text |-> "Too many polygon nodes (max n)", n |-> levelData.maxNodes]>>
              ELSE <<>>)]

\* getResourceUsage()
getResourceUsage(g, ns, builder) ==
  LET levelData == getCurrentLevel(g)
      polygons == PolygonEntries(ns)
      pipelineVerticesUsed == SumSeq([i \in 1..Len(polygons) |-> Len(polygons[i].node.vertices)])
      builderVertices == Len(builder.vertices)
      verticesUsed == pipelineVerticesUsed + builderVertices
      nodesUsed == Len(polygons)
  IN [verticesUsed |-> verticesUsed, verticesMax |-> levelData.maxVertices,
      nodesUsed |-> nodesUsed, nodesMax |-> levelData.maxNodes,
      verticesAvailable |-> IF levelData.maxVertices - verticesUsed > 0
                            THEN levelData.maxVertices - verticesUsed ELSE 0,
      nodesAvailable |-> IF levelData.maxNodes - nodesUsed > 0
                         THEN levelData.maxNodes - nodesUsed ELSE 0]

\* generateFeedback(breakdown, plaintext, ciphertext), as the parts it joins
generateFeedback(breakdown, plaintext, ciphertext) ==
  LET score == breakdown.final
  IN <<IF score # NaN /\ score >= 80 * Micro THEN "Excellent cipher! Very strong encryption."
       ELSE IF score # NaN /\ score >= 60 * Micro
       THEN "Good signal encryption. Ready to transmit!"
       ELSE IF score # NaN /\ score >= 40 * Micro
       THEN "Weak cipher. Vulnerable to frequency analysis."
       ELSE "Critical weakness. Signal will be intercepted.">>
     \o (IF breakdown.entropy # NaN /\ breakdown.entropy > 15 * Micro
         THEN <<"High entropy detected.">> ELSE <<>>)
     \o (IF breakdown.diffusion # NaN /\ breakdown.diffusion > 10 * Micro
         THEN <<"Good diffusion.">> ELSE <<>>)
     \o (IF breakdown.keySpace # NaN /\ breakdown.keySpace > 5 * Micro
         THEN <<"Large key space.">> ELSE <<>>)

\* transmitSignal() passing on the score alone, the objective only reported
transmitSignalScoreOnly(g, plaintext, ciphertext, pipeline) ==
  LET scoreBreakdown == evaluateCipher(plaintext, ciphertext, pipeline)
      attackResults == runAttacks(plaintext, ciphertext, pipeline)
      threatenedScore ==
        JsMax(0, JsAdd(scoreBreakdown.final, 0 - attackResults.totalPenalty * Micro))
      levelData == levels[g.currentLevel]
      passed == checkPass(threatenedScore, levelData.threshold * Micro)
  IN [g EXCEPT !.lastScore = scoreBreakdown.final,
               !.lastResults =
                 [kind |-> "results",
                  scoreBreakdown |-> scoreBreakdown,
                  attackResults |-> attackResults,
                  threatenedScore |-> threatenedScore,
                  passed |-> passed,
                  objectiveCheck |-> checkObjectiveMet(g, pipeline),
                  feedback |-> generateFeedback(scoreBreakdown, plaintext, ciphertext),
                  patterns |-> detectPatterns(ciphertext),
                  threshold |-> levelData.threshold * Micro],
               !.gameState = IF passed THEN "complete" ELSE "idle"]

\* transmitSignal(): the game object after each of its assignments
transmitSignal(g, plaintext, ciphertext, pipeline) ==
  LET g1 == [g EXCEPT !.gameState = "transmitting"]
      scoreBreakdown == evaluateCipher(plaintext, ciphertext, pipeline)
      g2 == [g1 EXCEPT !.lastScore = scoreBreakdown.final]
      attackResults == runAttacks(plaintext, ciphertext, pipeline)
      threatenedScore ==
        JsMax(0, JsAdd(g2.lastScore, 0 - attackResults.totalPenalty * Micro))
      levelData == levels[g2.currentLevel]
      objectiveCheck == checkObjectiveMet(g2, pipeline)
      passed == checkPass(threatenedScore, levelData.threshold * Micro) /\ objectiveCheck.met
      g3 == [g2 EXCEPT !.lastResults =
               [kind |-> "results",
                scoreBreakdown |-> scoreBreakdown,
                attackResults |-> attackResults,
                threatenedScore |-> threatenedScore,
                passed |-> passed,
                objectiveCheck |-> objectiveCheck,
                feedback |-> generateFeedback(scoreBreakdown, plaintext, ciphertext),
                patterns |-> detectPatterns(ciphertext),
                threshold |-> levelData.threshold * Micro]]
  IN [g3 EXCEPT !.gameState = IF passed THEN "complete" ELSE "idle"]

(* ---- PolygonBuilder ---- *)
snapDistance == 15

\* getClosestVertex(pos): the 0-based index of the vertex nearest to pos among
\* those nearer than snapDistance, the first of them when several are as near
getClosestVertex(vertices, pos) ==
  LET near == {i \in 1..Len(vertices) :
                 Dist2(pos, vertices[i]) < snapDistance * snapDistance}
  IN IF near = {} THEN Null
     ELSE (CHOOSE i \in near :
             \A j \in near :
               \/ Dist2(pos, vertices[i]) < Dist2(pos, vertices[j])
               \/ (Dist2(pos, vertices[i]) = Dist2(pos, vertices[j]) /\ i <= j)) - 1

\* validate()
validate(builder) ==
  LET validation == validatePolygon(builder.vertices, TRUE)
  IN [builder EXCEPT !.isValid = validation.valid, !.validationError = validation.error]

\* clear()
clear(builder) ==
  [builder EXCEPT !.vertices = <<>>, !.draggingVertex = Null, !.isValid = FALSE,
                  !.validationError = ""]

\* this.vertices[index] = value, index at most this.vertices.length
SetVertex(vertices, index, value) ==
  IF index = Len(vertices) THEN Append(vertices, value)
  ELSE [vertices EXCEPT ![index + 1] = value]

\* handleClick(e), e at the canvas position pos; maxVertices is what
\* gameRef.getResourceUsage().verticesMax gives. The limit warning is drawn
\* and wiped by a timer: it is no part of the state here.
handleClick(builder, pos, maxVertices) ==
  IF builder.draggingVertex # Null THEN builder
  ELSE IF getClosestVertex(builder.vertices, pos) # Null THEN builder
  ELSE IF Len(builder.vertices) >= maxVertices THEN builder
  ELSE validate([builder EXCEPT !.vertices = Append(builder.vertices, pos)])

\* handleRightClick(e)
handleRightClick(builder, pos) ==
  LET closestIdx == getClosestVertex(builder.vertices, pos)
  IN validate([builder EXCEPT !.vertices =
                 IF closestIdx # Null THEN Splice1(builder.vertices, closestIdx)
                 ELSE IF Len(builder.vertices) > 0
                 THEN SubSeq(builder.vertices, 1, Len(builder.vertices) - 1)
                 ELSE builder.vertices])

\* handleMouseDown(e)
handleMouseDown(builder, pos) ==
  LET closestIdx == getClosestVertex(builder.vertices, pos)
  IN IF closestIdx # Null THEN [builder EXCEPT !.draggingVertex = closestIdx] ELSE builder

\* handleMouseMove(e); without a vertex being dragged only the cursor changes
handleMouseMove(builder, pos) ==
  IF builder.draggingVertex # Null
  THEN validate([builder EXCEPT !.vertices =
                   SetVertex(builder.vertices, builder.draggingVertex, pos)])
  ELSE builder

\* handleMouseUp(e)
handleMouseUp(builder) == [builder EXCEPT !.draggingVertex = Null]

(* ---- the game's state machine ---- *)
\* the corners the player draws, in this order: three make a triangle, four
\* a concave outline; every side and diagonal is a whole number
Corners == Dart75

\* where the player clicks: on the next corner to draw, or on the first
\* vertex drawn
ClickPts(builder) ==
  (IF Len(builder.vertices) > 0 THEN {builder.vertices[1]} ELSE {}) \cup
    (IF Len(builder.vertices) < Len(Corners)
     THEN {Corners[Len(builder.vertices) + 1]} ELSE {})

\* where the player right-clicks: on the last vertex drawn, or away from all
RightPts(builder) ==
  (IF Len(builder.vertices) > 0 THEN {builder.vertices[Len(builder.vertices)]} ELSE {})
    \cup {Pt(200, 200)}

\* where the player presses the button to drag, on the first corner, and
\* where the mouse moves: next to the third corner, closer than
\* validatePolygon allows, and back
DownPts == {Corners[1]}
MovePts == {Pt(0, 100), Corners[1]}

\* level numbers asked of loadLevel: below the first, the first two, above
\* the last; nextLevel is called on the first
LevelNums == {0, 1, 2, 11}

\* longest pipeline of a game: five shift nodes and a polygon are the
\* shortest pipeline whose brute force penalty falls below 40
MaxPipeline == 6

\* node types and keys asked of addNode (a 'rot13' node does not exist); the
\* player adds the letter nodes first and the polygons last
NodeTypes == {"shift", "rot13"}
NodeKeys == {Null, 0, 3}

\* indexes asked of removeNodeByIndex: below the first node, the first two
\* nodes, past the last
IndexNums == {-1, 0, 1, MaxPipeline}

\* the game after new CipherDashGame(), which ends in loadLevel(1), and the
\* builder after new PolygonBuilder('polygon-canvas', { gameRef: game })
InitGame ==
  /\ text = levels[1].plaintext
  /\ cipher = <<>>
  /\ verts = <<>>
  /\ nodes = <<>>
  /\ nextUid = 0
  /\ node = NoNode
  /\ op = "init"
  /\ arg = NoValue
  /\ ret = NoValue
  /\ game = [currentLevel |-> 1, lastScore |-> Null, lastResults |-> UndefinedResults,
             gameState |-> "building"]
  /\ polygonBuilder = [vertices |-> <<>>, draggingVertex |-> Null, isValid |-> FALSE,
                       validationError |-> ""]

\* loadLevel(levelNum): what it does to the game object
loadLevel(levelNum) ==
  IF levelNum \notin 1..Len(levels)
  THEN UNCHANGED <<game, text, nodes, cipher>>
  ELSE /\ game' = [game EXCEPT !.currentLevel = levelNum, !.lastScore = Null,
                               !.gameState = "building"]
       /\ text' = levels[levelNum].plaintext
       /\ nodes' = <<>>
       /\ cipher' = <<>>

LoadLevel(levelNum) ==
  /\ loadLevel(levelNum)
  /\ UNCHANGED <<op, arg, ret, polygonBuilder, verts, nextUid, node>>

\* the node object addNode(nodeType, key) makes: key || 3, key || 5
NewNode(nodeType, key) ==
  CASE nodeType = "shift" -> ShiftNode(IF key = Null \/ key = 0 THEN 3 ELSE key)
    [] nodeType = "reverse" -> ReverseNode
    [] nodeType = "multiply" -> MultiplyNode(IF key = Null \/ key = 0 THEN 5 ELSE key)

\* updateCiphertext() run only when the pipeline grew
updateCiphertextOnGrowth(ns) ==
  cipher' = IF Len(ns) > Len(nodes) THEN encrypt(ns, text) ELSE cipher

\* updateCiphertext(), for the pipeline ns
updateCiphertext(ns) == cipher' = encrypt(ns, text)

\* CipherDashGame.addNode(nodeType, key); the game compares no node objects,
\* and its entries all carry the stamp nextUid, which stays
GameAddNode(nodeType, key) ==
  /\ IF nodeType \notin {"shift", "reverse", "multiply"}
     THEN UNCHANGED <<nodes, cipher>>
     ELSE /\ Len(nodes) < MaxPipeline
          /\ PolygonEntries(nodes) = <<>>
          /\ nodes' = addNode(nodes, NewNode(nodeType, key), nextUid)
          /\ updateCiphertext(nodes')
  /\ UNCHANGED <<op, arg, ret, game, polygonBuilder, text, verts, nextUid, node>>

RemoveLastNode ==
  /\ IF length(nodes) > 0
     THEN /\ nodes' = removeNode(nodes, length(nodes) - 1)
          /\ updateCiphertext(nodes')
     ELSE UNCHANGED <<nodes, cipher>>
  /\ UNCHANGED <<op, arg, ret, game, polygonBuilder, text, verts, nextUid, node>>

RemoveNodeByIndex(index) ==
  /\ IF index >= 0 /\ index < length(nodes)
     THEN /\ nodes' = removeNode(nodes, index)
          /\ updateCiphertext(nodes')
     ELSE UNCHANGED <<nodes, cipher>>
  /\ UNCHANGED <<op, arg, ret, game, polygonBuilder, text, verts, nextUid, node>>

TransmitSignal ==
  /\ UNCHANGED <<op, arg, ret, polygonBuilder, text, cipher, verts, nodes, nextUid, node>>
  /\ game' = transmitSignal(game, text, cipher, nodes)

ResetCipher ==
  /\ nodes' = <<>>
  /\ cipher' = <<>>
  /\ game' = [game EXCEPT !.lastScore = Null, !.lastResults = NullResults,
                          !.gameState = "building"]
  /\ UNCHANGED <<op, arg, ret, polygonBuilder, text, verts, nextUid, node>>

NextLevel ==
  /\ game.currentLevel + 1 \in LevelNums
  /\ IF game.currentLevel < Len(levels)
     THEN loadLevel(game.currentLevel + 1)
     ELSE UNCHANGED <<game, text, nodes, cipher>>
  /\ UNCHANGED <<op, arg, ret, polygonBuilder, verts, nextUid, node>>

\* addPolygonNode() without its test of the node limit
addPolygonNodeRefusedInvalidOnly(g, ns, builder) == ~builder.isValid

\* addPolygonNode() returning before it makes a node
addPolygonNodeRefused(g, ns, builder) ==
  \/ ~builder.isValid
  \/ LET resources == getResourceUsage(g, ns, builder)
     IN resources.nodesUsed >= resources.nodesMax

AddPolygonNode ==
  /\ IF addPolygonNodeRefused(game, nodes, polygonBuilder)
     THEN UNCHANGED <<nodes, cipher, polygonBuilder>>
     ELSE /\ Len(nodes) < MaxPipeline
          /\ nodes' = addNode(nodes, PolygonNode(polygonBuilder.vertices), nextUid)
          /\ polygonBuilder' = clear(polygonBuilder)
          /\ updateCiphertext(nodes')
  /\ UNCHANGED <<op, arg, ret, game, text, verts, nextUid, node>>

ClearPolygon ==
  /\ polygonBuilder' = clear(polygonBuilder)
  /\ UNCHANGED <<op, arg, ret, game, text, cipher, verts, nodes, nextUid, node>>

(* ---- mouse events on the builder's canvas ---- *)
HandleClick(pos) ==
  /\ polygonBuilder' =
       handleClick(polygonBuilder, pos,
                   getResourceUsage(game, nodes, polygonBuilder).verticesMax)
  /\ UNCHANGED <<op, arg, ret, game, text, cipher, verts, nodes, nextUid, node>>

\* one press of a button brings one contextmenu event: a second one does not
\* come while the vertex of the press is gone
HandleRightClick(pos) ==
  /\ \/ polygonBuilder.draggingVertex = Null
     \/ polygonBuilder.draggingVertex < Len(polygonBuilder.vertices)
  /\ polygonBuilder' = handleRightClick(polygonBuilder, pos)
  /\ UNCHANGED <<op, arg, ret, game, text, cipher, verts, nodes, nextUid, node>>

HandleMouseDown(pos) ==
  /\ polygonBuilder' = handleMouseDown(polygonBuilder, pos)
  /\ UNCHANGED <<op, arg, ret, game, text, cipher, verts, nodes, nextUid, node>>

HandleMouseMove(pos) ==
  /\ polygonBuilder' = handleMouseMove(polygonBuilder, pos)
  /\ UNCHANGED <<op, arg, ret, game, text, cipher, verts, nodes, nextUid, node>>

HandleMouseUp ==
  /\ polygonBuilder' = handleMouseUp(polygonBuilder)
  /\ UNCHANGED <<op, arg, ret, game, text, cipher, verts, nodes, nextUid, node>>

NextGame ==
  \/ \E levelNum \in LevelNums : LoadLevel(levelNum)
  \/ \E nodeType \in NodeTypes : \E key \in NodeKeys : GameAddNode(nodeType, key)
  \/ RemoveLastNode
  \/ \E index \in IndexNums : RemoveNodeByIndex(index)
  \/ TransmitSignal
  \/ ResetCipher
  \/ NextLevel
  \/ AddPolygonNode
  \/ ClearPolygon
  \/ \E pos \in ClickPts(polygonBuilder) : HandleClick(pos)
  \/ \E pos \in RightPts(polygonBuilder) : HandleRightClick(pos)
  \/ \E pos \in DownPts : HandleMouseDown(pos)
  \/ \E pos \in MovePts : HandleMouseMove(pos)
  \/ HandleMouseUp

SpecGame == InitGame /\ [][NextGame]_vars

(***************************************************************************)
(* The objective-only game (src/unnamed/part_002), a variant of game.js    *)
(* whose transmitSignal passes on the objective alone.  It runs with the   *)
(* same pipeline, node classes and polygon builder; that builder has no    *)
(* line mode, so addPolygonNode takes its polygon branch, which is the     *)
(* addPolygonNode of game.js, and addNode, the removals, resetCipher,      *)
(* clearPolygon and getResourceUsage are those of game.js line by line.    *)
(***************************************************************************)
\* what the variant's level table adds to or changes in the fields of
\* levels, which the two tables share (level, plaintext, threshold,
\* maxVertices, maxNodes): targetSides is null where targetSidesGiven is
\* FALSE, tolerance is in thousandths
VariantTargets ==
  << [targetSidesGiven |-> TRUE, targetSides |-> <<3>>, targetConvex |-> TRUE,
      targetType |-> "equilateral", tolerance |-> 150, targetAngle |-> Undefined],
     [targetSidesGiven |-> TRUE, targetSides |-> <<4>>, targetConvex |-> TRUE,
      targetType |-> "square", tolerance |-> 100, targetAngle |-> Undefined],
     [targetSidesGiven |-> TRUE, targetSides |-> <<3>>, targetConvex |-> TRUE,
      targetType |-> "30-60-90", tolerance |-> 87, targetAngle |-> Undefined],
     [targetSidesGiven |-> TRUE, targetSides |-> <<6>>, targetConvex |-> TRUE,
      targetType |-> "regular", tolerance |-> 120, targetAngle |-> Undefined],
     [targetSidesGiven |-> FALSE, targetSides |-> <<>>, targetConvex |-> FALSE,
      targetType |-> "parallel-lines", tolerance |-> 140, targetAngle |-> Undefined],
     [targetSidesGiven |-> FALSE, targetSides |-> <<>>, targetConvex |-> FALSE,
      targetType |-> "perpendicular-lines", tolerance |-> 87, targetAngle |-> Undefined],
     [targetSidesGiven |-> TRUE, targetSides |-> <<3>>, targetConvex |-> TRUE,
      targetType |-> "15-75-90", tolerance |-> 87, targetAngle |-> Undefined],
     [targetSidesGiven |-> TRUE, targetSides |-> <<5>>, targetConvex |-> TRUE,
      targetType |-> "regular", tolerance |-> 100, targetAngle |-> Undefined],
     [targetSidesGiven |-> FALSE, targetSides |-> <<>>, targetConvex |-> FALSE,
      targetType |-> "angle", tolerance |-> 62, targetAngle |-> 65],
     [targetSidesGiven |-> FALSE, targetSides |-> <<>>, targetConvex |-> FALSE,
      targetType |-> "angle", tolerance |-> 35, targetAngle |-> 15] >>

\* this.levels of the variant
VariantLevels == [i \in 1..Len(levels) |-> VariantTargets[i] @@ levels[i]]

\* checkObjectiveMet() of the variant.  Its first test is
\* if (levelData.targetSides), and the tests of targetType are its else
\* branches.  No node class of src/nodes.js has isEquilateral or isSquare, so
\* the tests tri.isEquilateral && ... and quad.isSquare && ... find nothing;
\* no node has the type 'line' or 'angle'.  The branches of '30-60-90',
\* '15-75-90', 'regular' and 'circle-tangent' are left out: every level of
\* these types has targetSides.
VariantCheckObjectiveMet(g, ns) ==
  LET levelData == VariantLevels[g.currentLevel]
      polygons == PolygonEntries(ns)
      nodesSides == {polygons[i].node.numSides : i \in 1..Len(polygons)}
      missing == SelectSeq(levelData.targetSides, LAMBDA t : t \notin nodesSides)
      concave == levelData.targetConvex
                   /\ \E i \in 1..Len(polygons) : ~polygons[i].node.convex
      tooMany == Len(polygons) > levelData.maxNodes
      triangles == SelectSeq(polygons, LAMBDA e : e.node.numSides = 3)
      quads == SelectSeq(polygons, LAMBDA e : e.node.numSides = 4)
      Failed(reason, n) == [met |-> FALSE, reasons |-> <<[text |-> reason, n |-> n]>>]
  IN IF levelData.targetSidesGiven
     THEN [met |-> missing = <<>> /\ ~concave /\ ~tooMany,
           reasons |->
             [i \in 1..Len(missing) |->
                [text |-> "Missing n-sided polygon", n |-> missing[i]]]
               \o (IF concave
                   THEN <<[text |-> "All polygons must be convex", n |-> 0]>> ELSE <<>>)
               \o (IF tooMany
                   THEN <<[text |-> "Too many polygon nodes (max n)",
                           n |-> levelData.maxNodes]>>
                   ELSE <<>>)]
     ELSE CASE levelData.targetType = "equilateral" ->
                 IF triangles = <<>> THEN Failed("Build a triangle", 0)
                 ELSE Failed("Triangle sides must be more equal (15% margin)", 0)
            [] levelData.targetType = "square" ->
                 IF quads = <<>> THEN Failed("Build a quadrilateral", 0)
                 ELSE Failed("All sides must be equal and angles ~90 (10% margin)", 0)
            [] levelData.targetType \in {"parallel-lines", "perpendicular-lines"} ->
                 Failed("Build at least 2 lines", 0)
            [] levelData.targetType = "angle" ->
                 Failed("Angle must be n", levelData.targetAngle)

\* transmitSignal() of the variant
VariantTransmitSignal(g, pipeline) ==
  LET g1 == [g EXCEPT !.gameState = "transmitting"]
      objectiveCheck == VariantCheckObjectiveMet(g1, pipeline)
      passed == objectiveCheck.met
      g2 == [g1 EXCEPT !.lastResults =
               [kind |-> "results", objectiveCheck |-> objectiveCheck, passed |-> passed,
                feedback |-> IF passed THEN "Objective met! Level complete!"
                             ELSE "Objective not met. Try again!"]]
  IN [g2 EXCEPT !.gameState = IF passed THEN "complete" ELSE "idle"]

\* level numbers asked of the variant's loadLevel: of the first two levels,
\* of a level of lines and a level of an angle, and outside the table
VariantLevelNums == {0, 1, 2, 5, 9, 11}

\* the variant after new CipherDashGame(): its loadLevel(1) sets lastResults
VariantInit ==
  /\ text = VariantLevels[1].plaintext
  /\ cipher = <<>>
  /\ verts = <<>>
  /\ nodes = <<>>
  /\ nextUid = 0
  /\ node = NoNode
  /\ op = "init"
  /\ arg = NoValue
  /\ ret = NoValue
  /\ game = [currentLevel |-> 1, lastScore |-> Null, lastResults |-> NullResults,
             gameState |-> "building"]
  /\ polygonBuilder = [vertices |-> <<>>, draggingVertex |-> Null, isValid |-> FALSE,
                       validationError |-> ""]

\* loadLevel(levelNum) of the variant, which also forgets the results and
\* clears the builder
VariantLoadLevelTo(levelNum) ==
  IF levelNum \notin 1..Len(VariantLevels)
  THEN UNCHANGED <<game, text, nodes, cipher, polygonBuilder>>
  ELSE /\ game' = [game EXCEPT !.currentLevel = levelNum, !.lastScore = Null,
                               !.lastResults = NullResults, !.gameState = "building"]
       /\ text' = VariantLevels[levelNum].plaintext
       /\ nodes' = <<>>
       /\ cipher' = <<>>
       /\ polygonBuilder' = clear(polygonBuilder)

VariantLoadLevel(levelNum) ==
  /\ VariantLoadLevelTo(levelNum)
  /\ UNCHANGED <<op, arg, ret, verts, nextUid, node>>

VariantNextLevel ==
  /\ game.currentLevel + 1 \in VariantLevelNums
  /\ IF game.currentLevel < Len(VariantLevels)
     THEN VariantLoadLevelTo(game.currentLevel + 1)
     ELSE UNCHANGED <<game, text, nodes, cipher, polygonBuilder>>
  /\ UNCHANGED <<op, arg, ret, verts, nextUid, node>>

VariantTransmit ==
  /\ game' = VariantTransmitSignal(game, nodes)
  /\ UNCHANGED <<op, arg, ret, polygonBuilder, text, cipher, verts, nodes, nextUid, node>>

NextVariant ==
  \/ \E levelNum \in VariantLevelNums : VariantLoadLevel(levelNum)
  \/ \E nodeType \in NodeTypes : \E key \in NodeKeys : GameAddNode(nodeType, key)
  \/ RemoveLastNode
  \/ \E index \in IndexNums : RemoveNodeByIndex(index)
  \/ VariantTransmit
  \/ ResetCipher
  \/ VariantNextLevel
  \/ AddPolygonNode
  \/ ClearPolygon
  \/ \E pos \in ClickPts(polygonBuilder) : HandleClick(pos)
  \/ \E pos \in RightPts(polygonBuilder) : HandleRightClick(pos)
  \/ \E pos \in DownPts : HandleMouseDown(pos)
  \/ \E pos \in MovePts : HandleMouseMove(pos)
  \/ HandleMouseUp

SpecVariant == VariantInit /\ [][NextVariant]_vars

(***************************************************************************)
(* Properties.                                                             *)
(***************************************************************************)
\* the letter index 0..25 of a character, case folded (a..z as A..Z), or -1
LetterIndex(c) ==
  IF c >= 65 /\ c <= 90 THEN c - 65
  ELSE IF c >= 97 /\ c <= 122 THEN c - 97
  ELSE -1

\* the text with every letter of index i replaced by the uppercase letter of index f[i]
MapLetters(t, f) ==
  [i \in 1..Len(t) |-> IF LetterIndex(t[i]) < 0 THEN t[i] ELSE 65 + f[LetterIndex(t[i])]]

RECURSIVE Gcd(_, _)
Gcd(a, b) == IF b = 0 THEN a ELSE Gcd(b, a % b)

\* the composition of the nodes' apply, first node first
RECURSIVE ApplyInOrder(_, _)
ApplyInOrder(ns, t) ==
  IF ns = <<>> THEN t ELSE ApplyInOrder(Tail(ns), Apply(Head(ns).node, t))

\* C1: whatever addNode, removeNode and clear did before, the nodes of the
\* pipeline stand in the order of their insertion and encrypt(text) is their
\* apply composed in that order, starting from text; encrypt of the empty
\* pipeline is text itself.
C1_EncryptFoldsInInsertionOrder ==
  /\ \A i, j \in 1..Len(nodes) : i < j => nodes[i].uid < nodes[j].uid
  /\ op = "encrypt" => ret = ApplyInOrder(nodes, text)
  /\ (op = "encrypt" /\ nodes = <<>>) => ret = text

\* two nodes that do not commute, the first node ever added being gone
C1_Witness ==
  /\ op = "encrypt"
  /\ Len(nodes) = 2
  /\ nodes[1].uid = 2
  /\ nodes[1].node.type = "shift"
  /\ nodes[2].node.type = "multiply"
  /\ text = <<65, 87>>
  /\ ret = <<80, 21 + 65>>

\* a key coprime to 26
IsCoprime26(k) == k # Undefined /\ Gcd(Abs(k), 26) = 1

\* the characters MultiplyNode.apply gives the 26 letters under key k
MultiplyImage(k) == {MultiplyApply(<<c>>, k)[1] : c \in 65..90}

\* C2: a MultiplyNode's key, after construction and after any setKey calls,
\* is an integer coprime to 26, and apply maps A-Z one-to-one onto A-Z.
C2_MultiplyKeyAlwaysCoprime ==
  node.type = "multiply" =>
    /\ IsCoprime26(node.key)
    /\ MultiplyImage(node.key) = 65..90

\* C3: constructing a MultiplyNode with a key not coprime to 26 stores the
\* element at index (key mod 12) of validKeys, never the key supplied.
C3_NonCoprimeKeyReplaced ==
  (op = "new MultiplyNode" /\ Gcd(Abs(arg), 26) # 1) =>
    /\ node.key = validKeys[(arg % 12) + 1]
    /\ node.key # arg

\* C3 for the keys that are not negative: what holds of the code
C3_NonNegativeKeyReplaced ==
  (op = "new MultiplyNode" /\ Gcd(Abs(arg), 26) # 1 /\ arg >= 0) =>
    /\ node.key = validKeys[(arg % 12) + 1]
    /\ node.key # arg

\* C4: ShiftNode.apply with any integer key k replaces each letter of index i
\* by the uppercase letter of index (i + (k mod 26)) mod 26, k mod 26 taken
\* in 0..25, and leaves every other character where and as it is.
C4_ShiftByKeyMod26 ==
  (op = "apply" /\ node.type = "shift") =>
    ret = MapLetters(text, [i \in 0..25 |-> (i + (node.key % 26)) % 26])

\* C4 for the keys that are not negative: what holds of the code
C4_NonNegativeShift ==
  (op = "apply" /\ node.type = "shift" /\ node.key >= 0) =>
    ret = MapLetters(text, [i \in 0..25 |-> (i + (node.key % 26)) % 26])

\* the shift of a polygon of n sides: n mod 26, or 3 when that is 0
SidesShift(n) == IF n % 26 = 0 THEN 3 ELSE n % 26

\* the multiplier of a convex polygon: validKeys[floor(sideVariance * 2) mod 12]
VarianceKey(n) == validKeys[(FloorTimes(n.sideVariance, 2) % 12) + 1]

\* text shifted by the polygon's side count
ShiftStage(n, t) == MapLetters(t, [i \in 0..25 |-> (i + SidesShift(n.numSides)) % 26])

\* text shifted, then its letter indices multiplied by the variance key
BothStages(n, t) ==
  MapLetters(ShiftStage(n, t), [i \in 0..25 |-> (VarianceKey(n) * i) % 26])

ConcaveTwins(n) ==
  {w \in Shapes : /\ Len(w) = n.numSides
                  /\ getSideLengths(w) = n.sideLengths
                  /\ ~isConvex(w)}

AllLetters(t) == \A i \in 1..Len(t) : LetterIndex(t[i]) >= 0

\* C6 (as claimed): a convex node of side variance > 0 and a concave node of
\* the same vertex count and side lengths give different ciphertexts for
\* every non-empty all-letter input.
C6_ConvexAndConcaveAlwaysDiffer ==
  (op = "apply" /\ node.type = "polygon" /\ node.convex /\ node.sideVariance.num > 0
     /\ text # <<>> /\ AllLetters(text)) =>
    \A w \in ConcaveTwins(node) : Apply(PolygonNode(w), text) # ret

\* C6 (amended): the concave node performs the shift stage only, and the two
\* ciphertexts differ exactly when the multiplication by
\* k = validKeys[floor(sideVariance * 2) mod 12] moves some shifted letter:
\* some letter of the input has a shifted index i with (k * i) mod 26 # i.
\* They are equal when k = 1 and when every shifted letter is 'A' or 'N'.
C6_DifferWhereMultiplyMoves ==
  (op = "apply" /\ node.type = "polygon" /\ node.convex /\ node.sideVariance.num > 0
     /\ text # <<>> /\ AllLetters(text)) =>
    \A w \in ConcaveTwins(node) :
      /\ Apply(PolygonNode(w), text) = ShiftStage(node, text)
      /\ (Apply(PolygonNode(w), text) # ret) <=>
           (\E i \in 1..Len(text) :
              LET x == ShiftStage(node, text)[i] - 65
              IN (VarianceKey(node) * x) % 26 # x)

\* the kite and the dart on "AW": 'A' becomes 'E' then 'Q', 'W' becomes 'A' and stays
C6_Witness ==
  /\ op = "apply"
  /\ node.type = "polygon"
  /\ node.vertices = Kite
  /\ Dart \in ConcaveTwins(node)
  /\ text = <<65, 87>>
  /\ ret = <<81, 65>>
  /\ Apply(PolygonNode(Dart), text) = <<69, 65>>

\* C7: once a PolygonNode is constructed, no operation on it (apply,
\* describe, analyzeGeometry, the inherited setKey) changes its numSides,
\* convex, sideVariance, area or key.
C7_PolygonFieldsNeverChange ==
  [][(node.type = "polygon" /\ node'.type = "polygon") =>
       /\ node'.numSides = node.numSides
       /\ node'.convex = node.convex
       /\ node'.sideVariance = node.sideVariance
       /\ node'.area = node.area
       /\ node'.key = node.key]_vars

\* some two vertices of the list are less than 15 units apart
HasClosePair(v) ==
  \E i, j \in 1..Len(v) : i # j /\ Dist2(v[i], v[j]) < 15 * 15

\* twice the signed shoelace sum of the list, cyclically
RECURSIVE ShoelaceSum(_, _)
ShoelaceSum(v, i) ==
  IF i > Len(v) THEN 0
  ELSE LET p == v[i]
           q == v[IF i = Len(v) THEN 1 ELSE i + 1]
       IN p.x * q.y - q.x * p.y + ShoelaceSum(v, i + 1)

\* the area of the list is below 100
AreaBelowMinimum(v) == Len(v) < 3 \/ Abs(ShoelaceSum(v, 1)) < 2 * 100

Failure(error) == [valid |-> FALSE, error |-> error, sides |-> 0]

C9_ClosePairAlwaysReported ==
  (op = "validatePolygon" /\ HasClosePair(verts)) =>
    ret = Failure("Vertices too close together")

\* C9 (amended): a list of 3 to 12 vertices with two vertices less than 15
\* apart is rejected with 'Vertices too close together'; a shorter or longer
\* list is rejected for its length first.
C9_ClosePairReportedFor3To12 ==
  (op = "validatePolygon" /\ HasClosePair(verts)) =>
    ret = IF Len(verts) < 3 THEN Failure("Need at least 3 vertices")
          ELSE IF Len(verts) > 12 THEN Failure("Too many vertices (max 12)")
          ELSE Failure("Vertices too close together")

\* four vertices, adjacent ones 15 apart or more, the first and third closer
C9_Witness ==
  /\ op = "validatePolygon"
  /\ verts = <<Pt(15, 0), Pt(0, 0), Pt(9, 12), Pt(30, 0)>>
  /\ ret = Failure("Vertices too close together")

\* C10 (as claimed): for the square (0,0),(10,0),(10,10),(0,10) polygonArea
\* is exactly 100 and validatePolygon returns valid = true.
C10_Square10AreaAndValid ==
  /\ (op = "polygonArea" /\ verts = Square10) => ret = 2 * 100
  /\ (op = "validatePolygon" /\ verts = Square10) => ret.valid

\* C10 (amended): for that square polygonArea is exactly 100, but
\* validatePolygon rejects it with 'Vertices too close together', its sides
\* being 10 long; an area equal to the minimum of 100 is accepted when no
\* two vertices are closer than 15, as for the triangle (0,0),(40,0),(20,5).
C10_Square10TooCloseArea100Accepted ==
  /\ (op = "polygonArea" /\ verts = Square10) => ret = 2 * 100
  /\ (op = "validatePolygon" /\ verts = Square10) =>
       ret = Failure("Vertices too close together")
  /\ (op = "polygonArea" /\ verts = Tri100) => ret = 2 * 100
  /\ (op = "validatePolygon" /\ verts = Tri100) =>
       ret = [valid |-> TRUE, error |-> "", sides |-> 3]

\* the square, of area exactly 100, rejected for its sides of 10
C10_Witness ==
  /\ op = "validatePolygon"
  /\ verts = Square10
  /\ polygonArea(verts) = 2 * 100
  /\ ret = Failure("Vertices too close together")

\* the vertex after the i-th (1-based), going round
After(vertices, i) == vertices[IF i = Len(vertices) THEN 1 ELSE i + 1]

\* the turn at the vertex after the i-th: the cross product of the edge
\* reaching it and the edge leaving it
TurnAt(vertices, i) ==
  LET a == vertices[i]
      b == After(vertices, i)
      c == After(vertices, IF i = Len(vertices) THEN 1 ELSE i + 1)
  IN (b.x - a.x) * (c.y - b.y) - (b.y - a.y) * (c.x - b.x)

\* the signs of the turns that are not 0
TurnSigns(vertices) ==
  {IF TurnAt(vertices, i) > 0 THEN 1 ELSE -1 :
     i \in {j \in 1..Len(vertices) : TurnAt(vertices, j) # 0}}

\* C11: for a list of 3 or more vertices isConvex returns true exactly when
\* the non-zero cross products of consecutive edges, taken round every
\* vertex, all have one sign; zero cross products are ignored, so a list
\* whose cross products are all 0 is convex, and a self-intersecting list
\* that always turns the same way (the pentagram) is convex too.
C11_ConvexIffNonZeroTurnsAgree ==
  (op = "isConvex" /\ Len(arg) >= 3) =>
    /\ ret = (Cardinality(TurnSigns(arg)) <= 1)
    /\ TurnSigns(arg) = {} => ret = TRUE
    /\ arg = Pentagram => ret = TRUE

\* isConvex answered true for a list with a straight triple and real turns
C11_Witness ==
  /\ op = "isConvex"
  /\ Len(arg) >= 3
  /\ ret = TRUE
  /\ \E i \in 1..Len(arg) : TurnAt(arg, i) = 0
  /\ \E i \in 1..Len(arg) : TurnAt(arg, i) # 0

\* the lists of fewer than 3 points
ShortLists == UNION {[1..n -> Pts] : n \in 0..2}

\* C12: for a list of 0, 1 or 2 points polygonArea returns 0, isConvex
\* returns false and calculateSideVariance returns 0; a PolygonNode built
\* from such a list is constructed with those values, is not convex, and its
\* apply is the shift stage alone.
C12_ShortListsDegenerate ==
  /\ \A v \in ShortLists :
       /\ polygonArea(v) = 0
       /\ isConvex(v) = FALSE
       /\ calculateSideVariance(v).num = 0
  /\ (node.type = "polygon" /\ node.numSides < 3) =>
       /\ node.numSides = Len(node.vertices)
       /\ node.area = 0
       /\ node.convex = FALSE
       /\ node.sideVariance.num = 0
       /\ (op = "apply" \/ op = "apply with key") => ret = ShiftStage(node, text)

\* a node built from one point shifts 'A' by 1 to 'B' and does no more
C12_Witness ==
  /\ node.type = "polygon"
  /\ node.numSides = 1
  /\ op = "apply"
  /\ text = <<65>>
  /\ ret = <<66>>

\* the sequence without its element at the 0-based index k
Without(ns, k) == [i \in 1..(Len(ns) - 1) |-> IF i <= k THEN ns[i] ELSE ns[i + 1]]

\* C13: removeNode(index) with an index outside 0..length-1 (negative, or
\* >= length) leaves the node sequence unchanged; with a valid index it
\* removes exactly that node and keeps the order of the others.
C13_RemoveOutOfRangeIsNoOp ==
  [][op' = "removeNode" =>
       nodes' = IF arg' >= 0 /\ arg' < Len(nodes) THEN Without(nodes, arg') ELSE nodes]_vars

\* C13 for the indices that are not negative: what holds of the code
C13_RemoveNonNegativeIndex ==
  [][(op' = "removeNode" /\ arg' >= 0) =>
       nodes' = IF arg' < Len(nodes) THEN Without(nodes, arg') ELSE nodes]_vars

\* C13 for the negative indices: splice counts them from the end, and from
\* the start when they reach beyond it
C13_RemoveNegativeIndexFromEnd ==
  [][(op' = "removeNode" /\ arg' < 0 /\ nodes # <<>>) =>
       nodes' = Without(nodes, IF Len(nodes) + arg' < 0 THEN 0 ELSE Len(nodes) + arg')]_vars

\* C14: evaluateCipher returns base = 60 and final = the sum of base,
\* entropy, diffusion, keySpace and penalties clamped to 0..100, a number
\* between 0 and 100, for every plaintext and ciphertext, the empty strings
\* included, and every pipeline.
C14_FinalIsClampedSum ==
  op = "evaluateCipher" =>
    /\ ret.base = 60 * Micro
    /\ ret.final # NaN
    /\ ret.final >= 0
    /\ ret.final <= 100 * Micro
    /\ LET sum == ret.base + ret.entropy + ret.diffusion + ret.keySpace + ret.penalties
       IN ret.final = IF sum < 0 THEN 0 ELSE IF sum > 100 * Micro THEN 100 * Micro ELSE sum

\* C14 for the calls whose strings are not both empty: what holds of the code
C14_FinalIsClampedSumNotBothEmpty ==
  (op = "evaluateCipher" /\ ~(text = <<>> /\ cipher = <<>>)) =>
    /\ ret.base = 60 * Micro
    /\ ret.final # NaN
    /\ ret.final >= 0
    /\ ret.final <= 100 * Micro
    /\ LET sum == ret.base + ret.entropy + ret.diffusion + ret.keySpace + ret.penalties
       IN ret.final = IF sum < 0 THEN 0 ELSE IF sum > 100 * Micro THEN 100 * Micro ELSE sum

\* C14 for two empty strings: diffusion and final are NaN
C14_BothEmptyGivesNaN ==
  (op = "evaluateCipher" /\ text = <<>> /\ cipher = <<>>) =>
    ret.diffusion = NaN /\ ret.final = NaN

\* how many times the character c stands in t
CountOf(t, c) == Cardinality({i \in 1..Len(t) : t[i] = c})

\* the letters A-Z that stand in t
LettersOf(t) == {c \in 65..90 : CountOf(t, c) > 0}

RECURSIVE SumOver(_, _)
SumOver(S, f) ==
  IF S = {} THEN 0
  ELSE LET x == CHOOSE y \in S : TRUE IN f[x] + SumOver(S \ {x}, f)

\* the standard deviation of the letter counts of t is less than 20% of
\* their mean: with n letters of counts f and sum S, std / mean < 1/5 is
\* 25 * n * sum(f^2) < 26 * S^2. Without letters the ratio counts as 100.
LetterCountsUniform(t) ==
  LET n == Cardinality(LettersOf(t))
      S == SumOver(LettersOf(t), [c \in 65..90 |-> CountOf(t, c)])
      Q == SumOver(LettersOf(t), [c \in 65..90 |-> CountOf(t, c) * CountOf(t, c)])
  IN n > 0 /\ 25 * n * Q < 26 * S * S

\* fewer than 30 in 100 of the characters differ at equal index; strings of
\* unlike lengths count as 50 in 100 changed, and two empty strings have no
\* percentage at all
FewChanged(p, c) ==
  /\ Len(p) = Len(c)
  /\ Len(p) > 0
  /\ 100 * Cardinality({i \in 1..Len(p) : p[i] # c[i]}) < 30 * Len(p)

IsReversalOf(p, c) ==
  Len(p) = Len(c) /\ \A i \in 1..Len(p) : c[i] = p[Len(p) + 1 - i]

\* C15: penalties is the sum of exactly those of -25 (ciphertext equal to
\* plaintext), -15 (ciphertext the reversed plaintext), -10 (fewer than 30%
\* of the characters changed), -5 (letter-count deviation below 20% of the
\* mean) and -40 (empty pipeline) whose own condition holds, each whatever
\* the others; all five together give -95.
C15_PenaltiesAreIndependentSum ==
  op = "evaluateCipher" =>
    ret.penalties =
      0 - (IF cipher = text THEN 25 * Micro ELSE 0)
        - (IF IsReversalOf(text, cipher) THEN 15 * Micro ELSE 0)
        - (IF FewChanged(text, cipher) THEN 10 * Micro ELSE 0)
        - (IF LetterCountsUniform(cipher) THEN 5 * Micro ELSE 0)
        - (IF Len(nodes) = 0 THEN 40 * Micro ELSE 0)

\* "AA" scored against itself with no pipeline takes all five penalties
C15_Witness ==
  /\ op = "evaluateCipher"
  /\ text = <<65, 65>>
  /\ cipher = text
  /\ nodes = <<>>
  /\ ret.penalties = -95 * Micro

\* C16: for every non-empty plaintext p, evaluateCipher(p, p, empty
\* pipeline) has penalties holding the -25 of identity and the -40 of the
\* empty pipeline (penalties <= -65), and final is 0.
C16_IdentityOnEmptyPipelineScoresZero ==
  (op = "evaluateCipher" /\ text # <<>> /\ cipher = text /\ nodes = <<>>) =>
    /\ ret.penalties <= -65 * Micro
    /\ ret.final = 0

\* "HELLO" scored against itself with no pipeline: -25, -10 and -40
C16_Witness ==
  /\ op = "evaluateCipher"
  /\ text = Hello
  /\ cipher = Hello
  /\ nodes = <<>>
  /\ ret.penalties = -75 * Micro
  /\ ret.final = 0

\* how many nodes of the pipeline ns have their type in the set types
NodesOfType(ns, types) == Cardinality({i \in 1..Len(ns) : ns[i].node.type \in types})

\* log2, in millionths, of 26^s * 12^m * 2^r for the s shift nodes, the m
\* multiply nodes and the r other nodes of ns: 26 = 2 * 13 and 12 = 4 * 3
BitsOfMultiplicities(ns) ==
  NodesOfType(ns, {"shift"}) * (Micro + Log2Micro(13))
    + NodesOfType(ns, {"multiply"}) * (2 * Micro + Log2Micro(3))
    + NodesOfType(ns, {"reverse", "polygon"}) * Micro

\* a count hi * testRate + lo divided by k, and whether k divides it
QuotientBy(b, k) ==
  [hi |-> b.hi \div k, lo |-> ((b.hi % k) * testRate + b.lo) \div k]

DividesCount(k, b) == ((b.hi % k) * testRate + b.lo) % k = 0

\* log2, in millionths, of a count that is a product of 2s, 3s and 13s,
\* from its prime factors; -1 for the other counts
RECURSIVE Log2OfCount(_)
Log2OfCount(b) ==
  IF b.hi = 0 /\ b.lo = 1 THEN 0
  ELSE LET p == IF DividesCount(2, b) THEN 2
                ELSE IF DividesCount(3, b) THEN 3
                ELSE IF DividesCount(13, b) THEN 13 ELSE 0
       IN IF p = 0 THEN -1
          ELSE LET rest == Log2OfCount(QuotientBy(b, p))
               IN IF rest < 0 THEN -1 ELSE Log2Micro(p) + rest

ScaleCount(b, k) ==
  [hi |-> b.hi * k + (b.lo * k) \div 1000000, lo |-> (b.lo * k) % 1000000]

RECURSIVE PowerCount(_, _, _)
\* b * k^e
PowerCount(b, k, e) == IF e = 0 THEN b ELSE PowerCount(ScaleCount(b, k), k, e - 1)

\* the product C of the multiplicities of the nodes of ns
ProductOfMultiplicities(ns) ==
  PowerCount(PowerCount(PowerCount([hi |-> 0, lo |-> 1],
                                   26, NodesOfType(ns, {"shift"})),
                        12, NodesOfType(ns, {"multiply"})),
             2, NodesOfType(ns, {"reverse", "polygon"}))

\* the penalty for C combinations at 1,000,000 tests a second: C / 10^6
\* seconds is below a whole number N exactly when C.hi < N
PenaltyOfCount(C) ==
  IF C.hi < 1 THEN 40
  ELSE IF C.hi < 60 THEN 30
  ELSE IF C.hi < 3600 THEN 15
  ELSE IF C.hi < 86400 THEN 5
  ELSE 0

\* C18: the penalty of bruteForceAttack is that of the product C of the
\* multiplicities alone: 40 below 1 s, 30 below 60 s, 15 below 60 min, 5
\* below 24 h, 0 from there on; it never rises when a node is added, and
\* the empty pipeline (C = 1) gets 40.
C18_PenaltyByProductBuckets ==
  op = "bruteForceAttack" =>
    /\ ret.combinations = ProductOfMultiplicities(nodes)
    /\ ret.penalty = PenaltyOfCount(ProductOfMultiplicities(nodes))
    /\ \A n \in EvalNodes :
         bruteForceAttack(addNode(nodes, n, nextUid)).penalty <= ret.penalty
    /\ nodes = <<>> => (ret.combinations = [hi |-> 0, lo |-> 1] /\ ret.penalty = 40)

\* seven shift nodes: 26^7 = 8031810176 combinations, 2.2 hours, penalty 5
C18_Witness ==
  /\ op = "bruteForceAttack"
  /\ Len(nodes) = 7
  /\ \A i \in 1..7 : nodes[i].node.type = "shift"
  /\ ret.combinations = [hi |-> 8031, lo |-> 810176]
  /\ ret.penalty = 5
  /\ bruteForceAttack(addNode(nodes, ShiftNode(3), nextUid)).penalty = 0

\* the count of the most frequent letter A-Z of t, 0 without letters
TopCount(t) ==
  CHOOSE m \in 0..Len(t) :
    /\ \A c \in 65..90 : CountOf(t, c) <= m
    /\ m > 0 => \E c \in 65..90 : CountOf(t, c) = m

\* the number of letters A-Z of t
LetterCount(t) == Cardinality({i \in 1..Len(t) : t[i] \in 65..90})

\* twice L times min(30, max(0, top - 0.15) * 100), for top = c / L
ClampedTwice(c, L) ==
  IF 100 * c <= 15 * L THEN 0
  ELSE IF 100 * c - 15 * L >= 30 * L THEN 60 * L
  ELSE 2 * (100 * c - 15 * L)

C20_TwoAttacksCappedTotal ==
  op = "runAttacks" =>
    /\ Len(ret.attacks) = 2
    /\ ret.attacks[1].name = "Frequency Analysis"
    /\ ret.attacks[2].name = "Brute Force Estimation"
    /\ ret.attacks[1].penalty = frequencyAnalysisAttack(cipher).penalty
    /\ ret.attacks[2].penalty = bruteForceAttack(nodes).penalty
    /\ LET sum == ret.attacks[1].penalty + ret.attacks[2].penalty
       IN ret.totalPenalty = IF sum < 50 THEN sum ELSE 50
    /\ ret.showAnimation <=> ret.totalPenalty > 0

\* "AA" with no pipeline: 30 and 40, capped at 50
C20_Witness ==
  /\ op = "runAttacks"
  /\ cipher = <<65, 65>>
  /\ nodes = <<>>
  /\ ret.attacks[1].penalty = 30
  /\ ret.attacks[2].penalty = 40
  /\ ret.totalPenalty = 50
  /\ ret.showAnimation

\* eight shift nodes and a ciphertext without letters: nothing to animate
C20_NoPenaltyNoAnimation ==
  (op = "runAttacks" /\ LetterCount(cipher) = 0 /\ Len(nodes) = 8
     /\ \A i \in 1..8 : nodes[i].node.type = "shift") =>
    ret.totalPenalty = 0 /\ ~ret.showAnimation

\* C21: detectPatterns returns at most two warnings, the digram warning
\* before the sequence warning; the digram warning is there exactly when
\* some two-character substring stands at two or more positions, the
\* sequence warning, once, exactly when some three consecutive characters
\* have the codes c, c+1, c+2.
C21_DigramThenSequenceWarning ==
  op = "detectPatterns" =>
    LET digram == \E i, j \in 1..(Len(cipher) - 1) :
                    i < j /\ cipher[i] = cipher[j] /\ cipher[i + 1] = cipher[j + 1]
        run == \E i \in 1..(Len(cipher) - 2) :
                 cipher[i + 1] - cipher[i] = 1 /\ cipher[i + 2] - cipher[i] = 2
        D == "Repeating letter pairs detected (digram weakness)"
        S == "Alphabetic sequence detected (structural weakness)"
    IN ret = CASE digram /\ run -> <<D, S>>
               [] digram /\ ~run -> <<D>>
               [] ~digram /\ run -> <<S>>
               [] OTHER -> <<>>

\* "ABCABC" holds "AB" twice and the run "ABC" twice: one warning of each
C21_Witness ==
  /\ op = "detectPatterns"
  /\ cipher = <<65, 66, 67, 65, 66, 67>>
  /\ Len(ret) = 2

\* "ABAB" gives the digram warning alone, "ABCXYZ" the sequence warning alone
C21_Examples ==
  op = "detectPatterns" =>
    /\ cipher = <<65, 66, 65, 66>> =>
         ret = <<"Repeating letter pairs detected (digram weakness)">>
    /\ cipher = <<65, 66, 67, 88, 89, 90>> =>
         ret = <<"Alphabetic sequence detected (structural weakness)">>

\* every character of t is an uppercase letter
AllUpper(t) == \A i \in 1..Len(t) : t[i] \in 65..90

\* the pipeline is two shift nodes whose keys add up to a multiple of 26
InverseShifts ==
  /\ Len(nodes) = 2
  /\ nodes[1].node.type = "shift"
  /\ nodes[2].node.type = "shift"
  /\ (nodes[1].node.key + nodes[2].node.key) % 26 = 0

\* C22: for any integer keys a and b with (a + b) mod 26 = 0 the pipeline
\* [Shift(a), Shift(b)] encrypts every string of uppercase letters to itself.
C22_InverseShiftsRoundTrip ==
  (op = "encrypt" /\ InverseShifts /\ AllUpper(text)) => ret = text

\* C22 for keys that are not negative: what holds of the code
C22_NonNegativeInverseShifts ==
  (op = "encrypt" /\ InverseShifts /\ AllUpper(text)
     /\ nodes[1].node.key >= 0 /\ nodes[2].node.key >= 0) => ret = text

\* C23: ReverseNode.apply applied twice returns the original string, letters
\* or not, and a pipeline of two Reverse nodes is the identity.
C23_ReverseTwiceIsIdentity ==
  /\ ReverseApply(ReverseApply(text)) = text
  /\ (op = "encrypt" /\ Len(nodes) = 2
        /\ nodes[1].node.type = "reverse" /\ nodes[2].node.type = "reverse") =>
       ret = text

\* "An" through two Reverse nodes: "nA" after the first, "An" after the second
C23_Witness ==
  /\ op = "encrypt"
  /\ Len(nodes) = 2
  /\ nodes[1].node.type = "reverse"
  /\ nodes[2].node.type = "reverse"
  /\ text = <<65, 110>>
  /\ Apply(nodes[1].node, text) = <<110, 65>>
  /\ ret = <<65, 110>>

\* C25: MultiplyNode.setKey(k) with k one of 1, 3, 5, 7, 9, 11, 15, 17, 19,
\* 21, 23, 25 sets the node's key to k.
C25_SetValidKeyAssigns ==
  [][(op' = "setKey" /\ node.type = "multiply" /\ ValidKeysIncludes(arg')) =>
       node'.key = arg']_vars

\* what setKey does on a MultiplyNode: a valid key (one whose remainder by 26
\* is in validKeys) leaves the key as it was
C25_SetValidKeyKeepsOldKey ==
  [][(op' = "setKey" /\ node.type = "multiply" /\ ValidKeysIncludes(arg')) =>
       node'.key = node.key]_vars

\* the threatened score and the verdict of a transmission in the present state
ThreatenedScoreNow ==
  LET final == evaluateCipher(text, cipher, nodes).final
      reduced == JsAdd(final, 0 - runAttacks(text, cipher, nodes).totalPenalty * Micro)
  IN IF reduced = NaN THEN NaN ELSE IF reduced > 0 THEN reduced ELSE 0
PassedNow ==
  /\ ThreatenedScoreNow # NaN
  /\ ThreatenedScoreNow >= levels[game.currentLevel].threshold * Micro
  /\ checkObjectiveMet(game, nodes).met

\* C24: every call of transmitSignal stores threatenedScore = max(0, final -
\* totalPenalty) and passed = (threatenedScore >= the level's threshold and
\* the objective is met), and leaves gameState 'complete' when passed,
\* 'idle' otherwise (a call that stores what the game object already holds
\* is a stuttering step, its results checked when they were stored)
C24_TransmitPassesOnScoreAndObjective ==
  [][game' # game /\ TransmitSignal =>
       /\ game'.lastResults.threatenedScore = ThreatenedScoreNow
       /\ game'.lastResults.passed = PassedNow
       /\ game'.gameState = (IF PassedNow THEN "complete" ELSE "idle")]_vars
C24_Witness == game.gameState = "complete" /\ game.lastResults.passed
C24_WitnessScoreLow ==
  /\ game.gameState = "idle"
  /\ game.lastResults.kind = "results"
  /\ game.lastResults.objectiveCheck.met
  /\ game.lastResults.threatenedScore < game.lastResults.threshold
C24_WitnessObjectiveMissed ==
  /\ game.gameState = "idle"
  /\ game.lastResults.kind = "results"
  /\ ~game.lastResults.objectiveCheck.met
  /\ game.lastResults.threatenedScore >= game.lastResults.threshold

\* C27: in every state of a game, verticesUsed (the vertices of the
\* pipeline's polygon nodes plus those in the builder) is at most the
\* current level's maxVertices
C27_VerticesWithinBudget ==
  getResourceUsage(game, nodes, polygonBuilder).verticesUsed
    <= getCurrentLevel(game).maxVertices

\* what handleClick does keep: the builder gains a vertex only while it
\* holds fewer than maxVertices itself
C27_ClickLimitsBuilderOnly ==
  [][Len(polygonBuilder'.vertices) > Len(polygonBuilder.vertices)
       => Len(polygonBuilder.vertices) < getCurrentLevel(game).maxVertices]_vars

\* the session fields of a freshly loaded level n, lastResults aside
LevelLoaded(n) ==
  /\ game'.currentLevel = n
  /\ text' = levels[n].plaintext
  /\ nodes' = <<>>
  /\ cipher' = <<>>
  /\ game'.lastScore = Null
  /\ game'.gameState = "building"

\* C26: after loadLevel(n) with 1 <= n <= 10, called directly or through
\* nextLevel, the pipeline and the ciphertext are empty, lastScore is null,
\* gameState is 'building', plaintext is level n's, and no evaluation
\* results of the earlier level remain in lastResults
C26_LoadLevelKeepsNothing ==
  [][/\ \A n \in 1..Len(levels) :
          LoadLevel(n) => LevelLoaded(n) /\ game'.lastResults.kind # "results"
     /\ NextLevel /\ game.currentLevel < Len(levels)
          => LevelLoaded(game.currentLevel + 1) /\ game'.lastResults.kind # "results"]_vars

\* what loadLevel does: it resets every session field but lastResults, which
\* it leaves as it was
C26_LoadLevelKeepsResults ==
  [][/\ \A n \in 1..Len(levels) :
          LoadLevel(n) => LevelLoaded(n) /\ game'.lastResults = game.lastResults
     /\ NextLevel /\ game.currentLevel < Len(levels)
          => LevelLoaded(game.currentLevel + 1) /\ game'.lastResults = game.lastResults]_vars

\* the results of level 1 still stored on level 2
C26_StaleResults ==
  /\ game.currentLevel = 2
  /\ game.gameState = "building"
  /\ game.lastResults.kind = "results"
  /\ game.lastResults.threshold = levels[1].threshold * Micro

\* C28: in every state of a game the pipeline holds at most maxNodes polygon
\* nodes of the current level, and each of them was built from a list of 3
\* to 12 vertices that validatePolygon accepts
C28_PolygonNodesWithinLimitAndValid ==
  /\ Len(PolygonEntries(nodes)) <= getCurrentLevel(game).maxNodes
  /\ \A i \in 1..Len(nodes) :
       nodes[i].node.type = "polygon" =>
         /\ Len(nodes[i].node.vertices) \in 3..12
         /\ validatePolygon(nodes[i].node.vertices, TRUE).valid

\* the node limit is reached while the builder holds another valid polygon
C28_Witness ==
  /\ Len(PolygonEntries(nodes)) = getCurrentLevel(game).maxNodes
  /\ polygonBuilder.isValid

\* the builder holds three vertices or more that validatePolygon rejects
C28_WitnessInvalidBuilder ==
  /\ Len(polygonBuilder.vertices) >= 3
  /\ ~polygonBuilder.isValid
  /\ polygonBuilder.draggingVertex = Null

\* C29: in every state of a game with a non-empty pipeline, ciphertext is
\* pipeline.encrypt(plaintext) for the plaintext of the current level
C29_CiphertextFollowsPipeline ==
  /\ text = getCurrentLevel(game).plaintext
  /\ nodes # <<>> => cipher = encrypt(nodes, text)

\* a node was removed from the middle of a pipeline that still changes the text
C29_Witness ==
  /\ Len(nodes) >= 2
  /\ Len(PolygonEntries(nodes)) = 1
  /\ cipher # text
  /\ cipher # <<>>

\* with the pipeline empty, ciphertext is '' after loadLevel and resetCipher
\* and the plaintext after the last node was removed
C29_EmptyPipelineCiphertext == nodes = <<>> => cipher \in {<<>>, text}
C29_WitnessLastNodeRemoved == nodes = <<>> /\ cipher = text

\* the three sides of a triangle node differ from their mean by at most
\* perMille thousandths of it
SidesEqualWithin(n, perMille) ==
  LET s == n.sideLengths
      sum == s[1] + s[2] + s[3]
      Off(i) == IF 3 * s[i] >= sum THEN 3 * s[i] - sum ELSE sum - 3 * s[i]
  IN \A i \in 1..3 : 1000 * Off(i) <= perMille * sum

\* C30: in the objective-only variant, transmitSignal on level 1 reports
\* passed only if the pipeline holds a triangle node whose three sides are
\* equal within the level's tolerance of 0.15
C30_Level1PassNeedsEquilateral ==
  [][VariantTransmit /\ game.currentLevel = 1 /\ game'.lastResults.passed
       => \E i \in 1..Len(nodes) :
            /\ nodes[i].node.type = "polygon"
            /\ nodes[i].node.numSides = 3
            /\ SidesEqualWithin(nodes[i].node, VariantLevels[1].tolerance)]_vars

\* what the variant does on level 1: it passes exactly the pipelines with a
\* triangle node and no concave polygon
C30_Level1PassIsAnyConvexTriangle ==
  [][VariantTransmit /\ game.currentLevel = 1
       => (game'.lastResults.passed <=>
             /\ \E i \in 1..Len(nodes) :
                  nodes[i].node.type = "polygon" /\ nodes[i].node.numSides = 3
             /\ \A i \in 1..Len(nodes) :
                  nodes[i].node.type = "polygon" => nodes[i].node.convex)]_vars

\* level 1 is complete with the triangle of sides 75, 87 and 18
C30_ScalenePasses ==
  /\ game.currentLevel = 1
  /\ game.gameState = "complete"
  /\ \E i \in 1..Len(nodes) :
       /\ nodes[i].node.type = "polygon"
       /\ nodes[i].node.sideLengths = <<75, 87, 18>>

====
